---- MODULE Spec2Model ----
(***************************************************************************)
(* The continuous physics simulation of the graph view (src/lib/physics.ts)*)
(* and the React component that drives it (components/graph/GraphNodes.tsx)*)
(*                                                                         *)
(* Numbers.  The program computes in IEEE doubles.  Here a number is an    *)
(* integer count of 1/Unit (fixed point, Unit = 100000), and every product *)
(* or quotient truncates toward zero.  TLC's integers have 32 bits, so     *)
(* Hypot and MulRatio first scale their operands down to about 15 bits,    *)
(* the way a floating-point mantissa does: results of sqrt and of a        *)
(* direction ratio carry a relative error of about 1/20000.  Configuration *)
(* values (strengths, damping, deltaTime) are kept in thousandths.         *)
(***************************************************************************)
EXTENDS Integers, Sequences, FiniteSets, TLC

\* ------------------------------------------------------------------ bounds

\* frames (calls of update()) a behaviour of Spec may take
MaxTicks == 1

\* pointer, mouse and render events a behaviour of Spec may take
MaxEvents == 5

\* ------------------------------------------------------------- arithmetic

Unit == 100 * 1000
Milli == Unit \div 1000

Abs(a) == IF a < 0 THEN -a ELSE a
Sgn(a) == IF a < 0 THEN -1 ELSE IF a > 0 THEN 1 ELSE 0
Max(a, b) == IF a >= b THEN a ELSE b
Min(a, b) == IF a <= b THEN a ELSE b

\* thousandths -> fixed point
FromMilli(k) == k * Milli

\* a * (k/1000), a in fixed point, k a configuration value in thousandths
MulK(a, k) ==
  LET m == Abs(a)
      j == Abs(k)
  IN  Sgn(a) * Sgn(k) * ((m \div 1000) * j + ((m % 1000) * j) \div 1000)

\* a / (k/1000), k > 0 in thousandths
DivK(a, k) ==
  LET m == Abs(a)
  IN  Sgn(a) * ((m \div k) * 1000 + ((m % k) * 1000) \div k)

\* a * (num/den) with |num| <= den, den > 0: a scaled by a direction cosine
\* or by a falloff factor
MulRatio(a, num, den) ==
  LET s == (den \div 20000) + 1
      d == den \div s
      n == Abs(num) \div s
      m == Abs(a)
  IN  IF d = 0 THEN 0
      ELSE Sgn(a) * Sgn(num) * ((m \div d) * n + ((m % d) * n) \div d)

RECURSIVE SqrtBetween(_, _, _)
\* the largest r in lo..hi with r*r <= n (lo*lo <= n assumed)
SqrtBetween(n, lo, hi) ==
  IF lo >= hi THEN lo
  ELSE LET mid == (lo + hi + 1) \div 2
       IN  IF mid * mid <= n THEN SqrtBetween(n, mid, hi)
           ELSE SqrtBetween(n, lo, mid - 1)

\* Math.floor(Math.sqrt(n)) for 0 <= n < 2^31
ISqrt(n) == SqrtBetween(n, 0, 46340)

\* Math.sqrt(dx*dx + dy*dy)
Hypot(dx, dy) ==
  LET ax == Abs(dx)
      ay == Abs(dy)
      s == (Max(ax, ay) \div 32768) + 1
  IN  ISqrt((ax \div s) * (ax \div s) + (ay \div s) * (ay \div s)) * s

\* ------------------------------------------------------ PhysicsSimulation

\* DEFAULT_CONFIG, values in thousandths
DEFAULT_CONFIG ==
  [ targetStrength |-> 500,
    repulsionStrength |-> 1200,
    repulsionRadius |-> 12000,
    collisionEnabled |-> TRUE,
    damping |-> 800,
    velocityThreshold |-> 1,
    deltaTime |-> 16,
    collectionAttractionStrength |-> 200,
    tagAttractionStrength |-> 50 ]

\* the configuration GraphNodes constructs its simulation with:
\* { ...DEFAULT_CONFIG, ...config }
GraphNodesConfig ==
  [ DEFAULT_CONFIG EXCEPT !.targetStrength = 100000,
                          !.repulsionStrength = 2000,
                          !.repulsionRadius = 12000,
                          !.damping = 150,
                          !.deltaTime = 16 ]

\* private gridCellSize
gridCellSize == 10

\* the minimum separation 0.01 below which no direction is computed
\* (thousandths)
minSeparation == 10

\* the bounce factor 0.5 of resolveCollisions (thousandths)
bounce == 500

\* a string's toLowerCase(), over the tags the model uses
ToLowerCase(t) == CASE t = "Cat" -> "cat" [] t = "Pet" -> "pet" [] OTHER -> t

Range(seq) == { seq[i] : i \in DOMAIN seq }

\* index of the node with this id in the Map's insertion order, 0 if none
IndexOf(ns, id) ==
  IF \E i \in DOMAIN ns : ns[i].id = id
  THEN CHOOSE i \in DOMAIN ns : ns[i].id = id
  ELSE 0

HasNode(ns, id) == IndexOf(ns, id) # 0

\* getNode(id), for an id the Map holds
GetNode(ns, id) == ns[IndexOf(ns, id)]

\* setNode(node): Map.set keeps the place of a key already present and
\* appends a new key
SetNode(ns, node) ==
  IF HasNode(ns, node.id)
  THEN [ns EXCEPT ![IndexOf(ns, node.id)] = node]
  ELSE Append(ns, node)

\* a removal that leaves the Map as it is
RemoveNodeKeepingIt(ns, id) == ns

\* removeNode(id)
RemoveNode(ns, id) == SelectSeq(ns, LAMBDA n : n.id # id)

\* getCellKey(x, y): Math.floor(x / gridCellSize), Math.floor(y / gridCellSize)
GetCellKey(x, y) == << x \div (gridCellSize * Unit), y \div (gridCellSize * Unit) >>

\* buildSpatialGrid(): cell key -> ids of the nodes in the cell, in Map order
BuildSpatialGrid(ns) ==
  [ key \in { GetCellKey(ns[i].x, ns[i].y) : i \in DOMAIN ns } |->
      LET inCell == SelectSeq(ns, LAMBDA n : GetCellKey(n.x, n.y) = key)
      IN  [ i \in DOMAIN inCell |-> inCell[i].id ] ]

\* the 3x3 window of getNeighbors, in the order of its two loops
WindowKeys(cx, cy) ==
  << <<cx - 1, cy - 1>>, <<cx - 1, cy>>, <<cx - 1, cy + 1>>,
     <<cx, cy - 1>>, <<cx, cy>>, <<cx, cy + 1>>,
     <<cx + 1, cy - 1>>, <<cx + 1, cy>>, <<cx + 1, cy + 1>> >>

RECURSIVE NeighborsFrom(_, _, _, _, _)
NeighborsFrom(ns, grid, node, keys, k) ==
  IF k > Len(keys) THEN << >>
  ELSE LET ids == IF keys[k] \in DOMAIN grid THEN grid[keys[k]] ELSE << >>
           live == SelectSeq(ids, LAMBDA id : HasNode(ns, id) /\ id # node.id)
       IN  [ i \in DOMAIN live |-> GetNode(ns, live[i]) ]
             \o NeighborsFrom(ns, grid, node, keys, k + 1)

\* getNeighbors(node)
GetNeighbors(ns, grid, node) ==
  LET key == GetCellKey(node.x, node.y)
  IN  NeighborsFrom(ns, grid, node, WindowKeys(key[1], key[2]), 1)

ZeroForce == [fx |-> 0, fy |-> 0]

AddForce(f, g) == [fx |-> f.fx + g.fx, fy |-> f.fy + g.fy]

\* a spring with dx and dy taken from the target to the node
TargetAttractionReversed(cfg, node) ==
  [ fx |-> MulK(node.x - node.targetX, cfg.targetStrength),
    fy |-> MulK(node.y - node.targetY, cfg.targetStrength) ]

\* applyTargetAttraction: the force it adds
TargetAttraction(cfg, node) ==
  [ fx |-> MulK(node.targetX - node.x, cfg.targetStrength),
    fy |-> MulK(node.targetY - node.y, cfg.targetStrength) ]

\* applyRepulsion: the force it adds to node
Repulsion(cfg, node, other) ==
  LET dx == node.x - other.x
      dy == node.y - other.y
      dist == Hypot(dx, dy)
      radius == FromMilli(cfg.repulsionRadius)
  IN  IF dist < radius /\ dist > FromMilli(minSeparation)
      THEN LET strength ==
                 MulRatio(FromMilli(cfg.repulsionStrength), radius - dist, radius)
           IN  [ fx |-> MulRatio(strength, dx, dist),
                 fy |-> MulRatio(strength, dy, dist) ]
      ELSE ZeroForce

\* applyCollectionAttraction: the force it adds to node
CollectionAttraction(cfg, node, other) ==
  IF Len(node.collectionIds) = 0 \/ Len(other.collectionIds) = 0
  THEN ZeroForce
  ELSE IF Range(node.collectionIds) \cap Range(other.collectionIds) = {}
  THEN ZeroForce
  ELSE LET dx == other.x - node.x
           dy == other.y - node.y
           dist == Hypot(dx, dy)
           strength == FromMilli(cfg.collectionAttractionStrength)
       IN  IF dist > FromMilli(minSeparation)
           THEN [ fx |-> MulRatio(strength, dx, dist),
                  fy |-> MulRatio(strength, dy, dist) ]
           ELSE ZeroForce

\* a tag attraction that compares the tags as they are written
TagAttractionCaseSensitive(cfg, node, other) ==
  IF Len(node.tags) = 0 \/ Len(other.tags) = 0
  THEN ZeroForce
  ELSE LET setA == Range(node.tags)
           setB == Range(other.tags)
           intersection == setA \cap setB
           union == setA \cup setB
       IN  IF intersection = {}
           THEN ZeroForce
           ELSE LET dx == other.x - node.x
                    dy == other.y - node.y
                    dist == Hypot(dx, dy)
                    strength ==
                      MulRatio(FromMilli(cfg.tagAttractionStrength),
                               Cardinality(intersection), Cardinality(union))
                IN  IF dist > FromMilli(minSeparation)
                    THEN [ fx |-> MulRatio(strength, dx, dist),
                           fy |-> MulRatio(strength, dy, dist) ]
                    ELSE ZeroForce

\* applyTagAttraction: the force it adds to node
TagAttraction(cfg, node, other) ==
  IF Len(node.tags) = 0 \/ Len(other.tags) = 0
  THEN ZeroForce
  ELSE LET setA == { ToLowerCase(t) : t \in Range(node.tags) }
           setB == { ToLowerCase(t) : t \in Range(other.tags) }
           intersection == setA \cap setB
           union == setA \cup setB
       IN  IF intersection = {}
           THEN ZeroForce
           ELSE LET dx == other.x - node.x
                    dy == other.y - node.y
                    dist == Hypot(dx, dy)
                    strength ==
                      MulRatio(FromMilli(cfg.tagAttractionStrength),
                               Cardinality(intersection), Cardinality(union))
                IN  IF dist > FromMilli(minSeparation)
                    THEN [ fx |-> MulRatio(strength, dx, dist),
                           fy |-> MulRatio(strength, dy, dist) ]
                    ELSE ZeroForce

RECURSIVE NeighborForces(_, _, _, _)
\* the inner loop of update() over the neighbours of node, from the k-th
NeighborForces(cfg, node, nbrs, k) ==
  IF k > Len(nbrs) THEN ZeroForce
  ELSE LET rest == NeighborForces(cfg, node, nbrs, k + 1)
       IN  IF nbrs[k].id # node.id
           THEN AddForce(AddForce(Repulsion(cfg, node, nbrs[k]),
                                  AddForce(CollectionAttraction(cfg, node, nbrs[k]),
                                           TagAttraction(cfg, node, nbrs[k]))),
                         rest)
           ELSE rest

\* the force phase of update(): the forces Map when its loop has ended
ComputeForces(cfg, ns, grid) ==
  [ id \in { ns[i].id : i \in DOMAIN ns } |->
      LET node == GetNode(ns, id)
      IN  IF node.pinned THEN ZeroForce
          ELSE AddForce(TargetAttraction(cfg, node),
                        NeighborForces(cfg, node, GetNeighbors(ns, grid, node), 1)) ]

\* the integration of one node that is not pinned
IntegrateFree(cfg, node, force) ==
       LET vx1 == MulK(node.vx + MulK(DivK(force.fx, node.mass), cfg.deltaTime),
                       cfg.damping)
           vy1 == MulK(node.vy + MulK(DivK(force.fy, node.mass), cfg.deltaTime),
                       cfg.damping)
           slow == Hypot(vx1, vy1) < FromMilli(cfg.velocityThreshold)
           vx2 == IF slow THEN 0 ELSE vx1
           vy2 == IF slow THEN 0 ELSE vy1
       IN  [ node EXCEPT !.vx = vx2, !.vy = vy2,
                         !.x = node.x + MulK(vx2, cfg.deltaTime),
                         !.y = node.y + MulK(vy2, cfg.deltaTime) ]

\* integration without "Skip physics integration for pinned nodes"
IntegratePinnedToo(cfg, node, force) == IntegrateFree(cfg, node, force)

\* the integration of one node in update()
IntegrateNode(cfg, node, force) ==
  IF node.pinned THEN node ELSE IntegrateFree(cfg, node, force)

RECURSIVE IntegrateFrom(_, _, _)
\* an update() that computes the force on the k-th node when the nodes
\* before it have been integrated
IntegrateFrom(cfg, ns, k) ==
  IF k > Len(ns) THEN ns
  ELSE LET force == ComputeForces(cfg, ns, BuildSpatialGrid(ns))[ns[k].id]
       IN  IntegrateFrom(cfg, [ns EXCEPT ![k] = IntegrateNode(cfg, ns[k], force)],
                         k + 1)

\* an integration phase that takes each force from the positions of the moment
IntegrateInTurn(cfg, ns, forces) == IntegrateFrom(cfg, ns, 1)

\* the integration phase of update()
Integrate(cfg, ns, forces) ==
  [ i \in DOMAIN ns |-> IntegrateNode(cfg, ns[i], forces[ns[i].id]) ]

\* resolveCollisions(): the body of its loops for the pair (i, j), i < j
ResolvePair(ns, i, j) ==
  LET a == ns[i]
      b == ns[j]
      dx == b.x - a.x
      dy == b.y - a.y
      dist == Hypot(dx, dy)
      minDist == a.radius + b.radius
  IN  IF ~(dist < minDist /\ dist > FromMilli(minSeparation)) THEN ns
      ELSE
        LET overlap == minDist - dist
            \* nx * overlap, ny * overlap
            px == MulRatio(overlap, dx, dist)
            py == MulRatio(overlap, dy, dist)
            a1 == IF ~a.pinned /\ ~b.pinned
                  THEN [a EXCEPT !.x = a.x - MulK(px, 500), !.y = a.y - MulK(py, 500)]
                  ELSE IF ~a.pinned /\ b.pinned
                  THEN [a EXCEPT !.x = a.x - px, !.y = a.y - py]
                  ELSE a
            b1 == IF ~a.pinned /\ ~b.pinned
                  THEN [b EXCEPT !.x = b.x + MulK(px, 500), !.y = b.y + MulK(py, 500)]
                  ELSE IF a.pinned /\ ~b.pinned
                  THEN [b EXCEPT !.x = b.x + px, !.y = b.y + py]
                  ELSE b
            relVelX == a.vx - b.vx
            relVelY == a.vy - b.vy
            velAlongNormal == MulRatio(relVelX, dx, dist) + MulRatio(relVelY, dy, dist)
            hit == (~a.pinned \/ ~b.pinned) /\ velAlongNormal < 0
            a2 == IF hit /\ ~a.pinned
                  THEN [a1 EXCEPT
                          !.vx = a.vx - MulK(MulRatio(velAlongNormal, dx, dist), bounce),
                          !.vy = a.vy - MulK(MulRatio(velAlongNormal, dy, dist), bounce)]
                  ELSE a1
            b2 == IF hit /\ ~b.pinned
                  THEN [b1 EXCEPT
                          !.vx = b.vx + MulK(MulRatio(velAlongNormal, dx, dist), bounce),
                          !.vy = b.vy + MulK(MulRatio(velAlongNormal, dy, dist), bounce)]
                  ELSE b1
        IN  [ns EXCEPT ![i] = a2, ![j] = b2]

RECURSIVE ResolveFrom(_, _, _)
\* the two loops of resolveCollisions() from the pair (i, j) on
ResolveFrom(ns, i, j) ==
  IF i > Len(ns) THEN ns
  ELSE IF j > Len(ns) THEN ResolveFrom(ns, i + 1, i + 2)
  ELSE ResolveFrom(ResolvePair(ns, i, j), i, j + 1)

\* collision resolution that takes every node for a free one
ResolveIgnoringPins(ns) ==
  LET free == [ i \in DOMAIN ns |-> [ns[i] EXCEPT !.pinned = FALSE] ]
      done == ResolveFrom(free, 1, 2)
  IN  [ i \in DOMAIN ns |-> [done[i] EXCEPT !.pinned = ns[i].pinned] ]

\* resolveCollisions()
ResolveCollisions(ns) == ResolveFrom(ns, 1, 2)

\* update(): the nodes when it returns
UpdateNodes(cfg, ns) ==
  IF Len(ns) = 0 THEN ns
  ELSE LET grid == BuildSpatialGrid(ns)
           moved == Integrate(cfg, ns, ComputeForces(cfg, ns, grid))
       IN  IF cfg.collisionEnabled THEN ResolveCollisions(moved) ELSE moved

\* an update() that rebuilds the grid of an empty simulation as well
UpdateGridAlways(ns, grid) == BuildSpatialGrid(ns)

\* a grid that is filled without being cleared first
UpdateGridWithoutClear(ns, grid) ==
  LET new == BuildSpatialGrid(ns)
  IN  [ key \in DOMAIN grid \cup DOMAIN new |->
          (IF key \in DOMAIN grid THEN grid[key] ELSE << >>)
            \o (IF key \in DOMAIN new THEN new[key] ELSE << >>) ]

\* update(): the spatial grid when it returns
UpdateGrid(ns, grid) == IF Len(ns) = 0 THEN grid ELSE BuildSpatialGrid(ns)

\* update(): its local forces Map (empty when it returns at once)
UpdateForces(cfg, ns) ==
  IF Len(ns) = 0 THEN << >>
  ELSE ComputeForces(cfg, ns, BuildSpatialGrid(ns))

\* ------------------------------------------------------------------ state

VARIABLES
  nodes,                \* PhysicsSimulation.nodes: the Map's values, in insertion order
  spatialGrid,          \* PhysicsSimulation.spatialGrid
  config,               \* PhysicsSimulation.config
  forces,               \* the forces Map of the last update()
  items,                \* the items prop of GraphNodes: id -> Some(item), or None
  draggedNodeId,        \* the React state draggedNodeId
  handlerDraggedNodeId, \* draggedNodeId as the subscribed mouse handlers captured it
  dragStartPos,         \* dragStartPos.current: "null" or "set"
  isDragging,           \* isDragging.current
  dragOffset,           \* dragOffset.current
  lastPinnedNodeId,     \* lastPinnedNodeId.current
  isMobile,             \* the user agent test of the component
  ticks,                \* frames rendered so far
  events,               \* pointer, mouse and render events handled so far
  op,                   \* the operation that produced this state
  pre,                  \* the nodes the last operation of a function check started from
  retarget,             \* id -> the trail of a target changed under a pinned node
  call,                 \* the arguments of the library function being applied, if any
  frame,                \* the local variables of that function while it runs
  ret                   \* what that function returned, once it has

vars == << nodes, spatialGrid, config, forces, items, draggedNodeId,
           handlerDraggedNodeId, dragStartPos, isDragging, dragOffset,
           lastPinnedNodeId, isMobile, ticks, events, op, pre, retarget,
           call, frame, ret >>

simVars == << nodes, spatialGrid, config, forces >>
dragVars == << draggedNodeId, handlerDraggedNodeId, dragStartPos, isDragging,
               dragOffset, lastPinnedNodeId >>

\* ------------------------------------------------------------- GraphNodes

ItemIds == {"a", "b"}

\* the order in which the items prop lists the items it holds
ItemOrder == << "a", "b" >>

\* an optional value: None (undefined, null) or Some(v)
None == << >>
Some(v) == << v >>
IsSome(o) == Len(o) = 1
Get(o) == o[1]

\* no dragged node, no pinned node
Null == "null"

Point(px, py) == [x |-> px * Unit, y |-> py * Unit]

\* the target positions the layout hands to the items
CoordSet == { Point(0, 0), Point(6, 0) }

\* where on the drag plane the pointer is when a mouse move arrives
PointerSet == { Point(8, 0) }

\* where a pointer down hits the mesh of a node, relative to the node
GrabSet == { [x |-> 2 * Milli * 100, y |-> -(Milli * 100)] }

\* the collection and tag fields of the items
DataA ==
  [ collection_ids |-> None, collectionId |-> Some("c1"),
    tags |-> Some(<< "cat" >>), aiTags |-> None ]
DataB ==
  [ collection_ids |-> Some(<< "c2" >>), collectionId |-> Some("c1"),
    tags |-> Some(<< "Cat" >>), aiTags |-> Some(<< "pet" >>) ]

Item(c, d) ==
  [ umap_coords |-> c, collection_ids |-> d.collection_ids,
    collectionId |-> d.collectionId, tags |-> d.tags, aiTags |-> d.aiTags ]

\* what the items prop may hold for an id: nothing, or an item.  Item "a"
\* comes with and without a target and changes its target and its data;
\* item "b" comes and goes.
ItemChoices(id) ==
  IF id = "a"
  THEN {None} \cup { Some(Item(c, DataA)) : c \in { Some(p) : p \in CoordSet } \cup {None} }
              \cup { Some(Item(Some(Point(0, 0)), DataB)) }
  ELSE {None, Some(Item(Some(Point(6, 0)), DataB))}

\* the values of the items prop
ItemLists == { its \in [ ItemIds -> UNION { ItemChoices(id) : id \in ItemIds } ] :
                 \A id \in ItemIds : its[id] \in ItemChoices(id) }

\* item.collection_ids || (item.collectionId ? [item.collectionId] : [])
ItemCollectionIds(item) ==
  IF IsSome(item.collection_ids) THEN Get(item.collection_ids)
  ELSE IF IsSome(item.collectionId) THEN << Get(item.collectionId) >>
  ELSE << >>

\* [...(item.tags || []), ...(item.aiTags || [])]
ItemTags(item) ==
  (IF IsSome(item.tags) THEN Get(item.tags) ELSE << >>)
    \o (IF IsSome(item.aiTags) THEN Get(item.aiTags) ELSE << >>)

\* the node the items effect registers for a new item
NewNode(id, item) ==
  [ id |-> id,
    x |-> Get(item.umap_coords).x, y |-> Get(item.umap_coords).y,
    vx |-> 0, vy |-> 0,
    targetX |-> Get(item.umap_coords).x, targetY |-> Get(item.umap_coords).y,
    radius |-> FromMilli(4500), mass |-> 1000,
    pinned |-> FALSE,
    collectionIds |-> ItemCollectionIds(item),
    tags |-> ItemTags(item) ]

\* an items effect that removes no node
SyncRemoveNothing(ns, its) == ns

\* the items effect: "Remove nodes that no longer exist"
SyncRemove(ns, its) == SelectSeq(ns, LAMBDA n : IsSome(its[n.id]))

\* an items effect that registers an existing node anew, on its target
SyncExistingAnew(ns, id, item) == SetNode(ns, NewNode(id, item))

\* the items effect: "Update target if it changed", "Also update collection
\* and tag data", for an item whose node exists
SyncExisting(ns, id, item) ==
  LET existing == GetNode(ns, id)
  IN  SetNode(ns, [existing EXCEPT
                     !.targetX = Get(item.umap_coords).x,
                     !.targetY = Get(item.umap_coords).y,
                     !.collectionIds = ItemCollectionIds(item),
                     !.tags = ItemTags(item)])

\* an items effect that leaves a pinned node as it is
SyncItemUnlessPinned(ns, id, entry) ==
  IF ~IsSome(entry) THEN ns
  ELSE IF ~IsSome(Get(entry).umap_coords) THEN ns
  ELSE IF ~HasNode(ns, id) THEN SetNode(ns, NewNode(id, Get(entry)))
  ELSE IF GetNode(ns, id).pinned THEN ns
  ELSE SyncExisting(ns, id, Get(entry))

\* the items effect: the body of "Add or update nodes" for one id of the list
SyncItem(ns, id, entry) ==
  IF ~IsSome(entry) THEN ns
  ELSE IF ~IsSome(Get(entry).umap_coords) THEN ns
  ELSE IF ~HasNode(ns, id) THEN SetNode(ns, NewNode(id, Get(entry)))
  ELSE SyncExisting(ns, id, Get(entry))

RECURSIVE SyncFrom(_, _, _)
SyncFrom(ns, its, k) ==
  IF k > Len(ItemOrder) THEN ns
  ELSE SyncFrom(SyncItem(ns, ItemOrder[k], its[ItemOrder[k]]), its, k + 1)

\* the items effect, whole
SyncNodes(ns, its) == SyncFrom(SyncRemove(ns, its), its, 1)

\* a drag start that unpins nobody
UnpinNobody(ns, id, last) == ns

\* handlePointerDown: "Unpin any previously pinned node"
UnpinPrevious(ns, id, last) ==
  IF last # Null /\ last # id /\ HasNode(ns, last)
  THEN IF GetNode(ns, last).pinned
       THEN SetNode(ns, [GetNode(ns, last) EXCEPT !.pinned = FALSE])
       ELSE ns
  ELSE ns

\* a pointer down that pins the node and keeps its velocity
PinKeepingVelocity(ns, id, last) ==
  LET ns1 == UnpinPrevious(ns, id, last)
  IN  IF HasNode(ns1, id)
      THEN SetNode(ns1, [GetNode(ns1, id) EXCEPT !.pinned = TRUE])
      ELSE ns1

\* handlePointerDown: "Unpin any previously pinned node", then "Pin the node"
PointerDownNodes(ns, id, last) ==
  LET ns1 == UnpinPrevious(ns, id, last)
  IN  IF HasNode(ns1, id)
      THEN SetNode(ns1, [GetNode(ns1, id) EXCEPT !.pinned = TRUE, !.vx = 0, !.vy = 0])
      ELSE ns1

\* handlePointerUp: "Only unpin on desktop"
PointerUpNodes(ns, id) ==
  IF HasNode(ns, id)
  THEN SetNode(ns, [GetNode(ns, id) EXCEPT !.pinned = FALSE])
  ELSE ns

\* handleMouseMove: "Update node position directly"
MouseMoveNodes(ns, id, p, offset) ==
  IF HasNode(ns, id)
  THEN SetNode(ns, [GetNode(ns, id) EXCEPT !.x = p.x + offset.x, !.y = p.y + offset.y])
  ELSE ns

NoTrail == [st |-> "none", tgt |-> Point(0, 0)]

\* the trail of a target changed under a pinned node, after the items effect
TrailAfterSync(tr, ns, its) ==
  [ id \in ItemIds |->
      IF ~IsSome(its[id]) \/ ~HasNode(ns, id) THEN NoTrail
      ELSE IF ~IsSome(Get(its[id]).umap_coords) THEN tr[id]
      ELSE LET c == Get(Get(its[id]).umap_coords)
               n == GetNode(ns, id)
           IN  IF n.pinned /\ (n.targetX # c.x \/ n.targetY # c.y)
               THEN [st |-> "retargeted", tgt |-> c]
               ELSE IF tr[id].st # "none" THEN [tr[id] EXCEPT !.tgt = c]
               ELSE tr[id] ]

\* the trail after nodes ns have become ns1 by a pointer handler
TrailAfterPin(tr, ns, ns1) ==
  [ id \in ItemIds |->
      IF ~HasNode(ns, id) THEN tr[id]
      ELSE IF GetNode(ns, id).pinned /\ ~GetNode(ns1, id).pinned
      THEN IF tr[id].st = "retargeted" THEN [tr[id] EXCEPT !.st = "released"] ELSE NoTrail
      ELSE IF ~GetNode(ns, id).pinned /\ GetNode(ns1, id).pinned THEN NoTrail
      ELSE tr[id] ]

\* the trail after an update()
TrailAfterTick(tr, ns) ==
  [ id \in ItemIds |->
      IF tr[id].st = "released" /\ HasNode(ns, id) THEN [tr[id] EXCEPT !.st = "resumed"]
      ELSE IF tr[id].st = "resumed" THEN NoTrail
      ELSE tr[id] ]

\* handlePointerDown(itemId, event), called by the mesh of a rendered item;
\* the pointer is on that mesh, g away from the centre of the node
HandlePointerDown(id, shiftKey, g) ==
  /\ IsSome(items[id])
  /\ events < MaxEvents
  /\ events' = events + 1
  /\ op' = "pointerdown"
  /\ IF shiftKey
     THEN UNCHANGED << simVars, items, dragVars, isMobile, ticks, pre, retarget >>
     ELSE /\ draggedNodeId' = id
          /\ isDragging' = FALSE
          /\ dragStartPos' = "set"
          /\ IF isMobile
             THEN UNCHANGED << nodes, lastPinnedNodeId, dragOffset, retarget >>
             ELSE /\ nodes' = PointerDownNodes(nodes, id, lastPinnedNodeId)
                  /\ retarget' = TrailAfterPin(retarget, nodes, nodes')
                  /\ IF HasNode(nodes, id)
                     THEN /\ lastPinnedNodeId' = id
                          /\ dragOffset' =
                               LET node == GetNode(nodes, id)
                                   intersection == [x |-> node.x + g.x, y |-> node.y + g.y]
                               IN  [x |-> node.x - intersection.x,
                                    y |-> node.y - intersection.y]
                     ELSE UNCHANGED << lastPinnedNodeId, dragOffset >>
          /\ UNCHANGED << spatialGrid, config, forces, items, handlerDraggedNodeId,
                          isMobile, ticks, pre >>
  /\ UNCHANGED << call, frame, ret >>

\* handleMouseMove(e): far says the pointer is more than dragThreshold from
\* dragStartPos, p is where its ray meets the drag plane
HandleMouseMove(far, p) ==
  /\ events < MaxEvents
  /\ events' = events + 1
  /\ op' = "mousemove"
  /\ IF handlerDraggedNodeId # Null /\ dragStartPos # Null /\ ~isMobile
     THEN /\ isDragging' = (isDragging \/ far)
          /\ nodes' = IF isDragging'
                      THEN MouseMoveNodes(nodes, handlerDraggedNodeId, p, dragOffset)
                      ELSE nodes
     ELSE UNCHANGED << isDragging, nodes >>
  /\ UNCHANGED << spatialGrid, config, forces, items, draggedNodeId,
                  handlerDraggedNodeId, dragStartPos, dragOffset, lastPinnedNodeId,
                  isMobile, ticks, pre, retarget >>
  /\ UNCHANGED << call, frame, ret >>

\* handleMouseUp(), on mouseup and on mouseleave; it calls
\* handlePointerUp(draggedNodeId) of the same render
HandleMouseUp ==
  /\ events < MaxEvents
  /\ events' = events + 1
  /\ op' = "mouseup"
  /\ IF handlerDraggedNodeId # Null
     THEN /\ nodes' = IF isMobile THEN nodes
                      ELSE PointerUpNodes(nodes, handlerDraggedNodeId)
          /\ retarget' = TrailAfterPin(retarget, nodes, nodes')
          /\ draggedNodeId' = Null
          /\ dragStartPos' = Null
          /\ isDragging' = FALSE
     ELSE UNCHANGED << nodes, retarget, draggedNodeId, dragStartPos, isDragging >>
  /\ UNCHANGED << spatialGrid, config, forces, items, handlerDraggedNodeId,
                  dragOffset, lastPinnedNodeId, isMobile, ticks, pre >>
  /\ UNCHANGED << call, frame, ret >>

\* a render after setDraggedNodeId: the mouse effect subscribes handlers
\* that see the new draggedNodeId
Rerender ==
  /\ handlerDraggedNodeId # draggedNodeId
  /\ events < MaxEvents
  /\ events' = events + 1
  /\ op' = "render"
  /\ handlerDraggedNodeId' = draggedNodeId
  /\ UNCHANGED << simVars, items, draggedNodeId, dragStartPos, isDragging,
                  dragOffset, lastPinnedNodeId, isMobile, ticks, pre, retarget >>
  /\ UNCHANGED << call, frame, ret >>

\* a render with a new items prop: the mouse effect and the items effect run
RenderItems(its) ==
  /\ events < MaxEvents
  /\ events' = events + 1
  /\ op' = "items"
  /\ items' = its
  /\ handlerDraggedNodeId' = draggedNodeId
  /\ nodes' = SyncNodes(nodes, its)
  /\ retarget' = TrailAfterSync(retarget, nodes, its)
  /\ UNCHANGED << spatialGrid, config, forces, draggedNodeId, dragStartPos,
                  isDragging, dragOffset, lastPinnedNodeId, isMobile, ticks, pre >>
  /\ UNCHANGED << call, frame, ret >>

\* the useFrame callback: physics.update()
Tick ==
  /\ ticks < MaxTicks
  /\ ticks' = ticks + 1
  /\ op' = "tick"
  /\ nodes' = UpdateNodes(config, nodes)
  /\ spatialGrid' = UpdateGrid(nodes, spatialGrid)
  /\ forces' = UpdateForces(config, nodes)
  /\ retarget' = TrailAfterTick(retarget, nodes)
  /\ UNCHANGED << config, items, dragVars, isMobile, events, pre >>
  /\ UNCHANGED << call, frame, ret >>

\* the component when it has mounted with no items
Init ==
  /\ nodes = << >>
  /\ spatialGrid = << >>
  /\ config = GraphNodesConfig
  /\ forces = << >>
  /\ items = [ id \in ItemIds |-> None ]
  /\ draggedNodeId = Null
  /\ handlerDraggedNodeId = Null
  /\ dragStartPos = Null
  /\ isDragging = FALSE
  /\ dragOffset = [x |-> 0, y |-> 0]
  /\ lastPinnedNodeId = Null
  /\ isMobile \in BOOLEAN
  /\ ticks = 0
  /\ events = 0
  /\ op = "none"
  /\ pre = << >>
  /\ retarget = [ id \in ItemIds |-> NoTrail ]
  /\ call = << >>
  /\ frame = << >>
  /\ ret = << >>

Next ==
  \/ \E id \in ItemIds, shiftKey \in BOOLEAN, g \in GrabSet :
       HandlePointerDown(id, shiftKey, g)
  \/ \E far \in BOOLEAN, p \in PointerSet : HandleMouseMove(far, p)
  \/ HandleMouseUp
  \/ Rerender
  \/ \E its \in ItemLists : RenderItems(its)
  \/ Tick

Spec == Init /\ [][Next]_vars

\* ------------------------------------------- update() on drawn node sets

\* a node as a caller of setNode may register it, without tags or collections
PhysNode(id, pos, vel, target, pinned) ==
  [ id |-> id, x |-> pos.x, y |-> pos.y, vx |-> vel.x, vy |-> vel.y,
    targetX |-> target.x, targetY |-> target.y,
    radius |-> FromMilli(4500), mass |-> 1000, pinned |-> pinned,
    collectionIds |-> << >>, tags |-> << >> ]

Shift(p, d) == [x |-> p.x + d.x, y |-> p.y + d.y]

\* where node "a" of a drawn set is: half a unit left of a grid line
PhysOrigin == [x |-> -(Unit \div 2), y |-> 0]

\* where node "b" is, relative to "a": on it, closer than the minimum
\* separation, overlapping it, touching it, inside the repulsion radius in
\* the next cell, inside it two cells away, at the radius, beyond it
PhysOffsets ==
  { Point(0, 0), [x |-> 5 * Milli, y |-> 0], Point(3, 4), Point(6, 0), Point(0, -7),
    Point(9, 0), Point(10, 0), Point(11, 0), Point(12, 0), Point(14, 0) }

PhysVelocitiesA == { Point(0, 0), Point(1, 0), Point(-1, 0) }
PhysVelocitiesB == { Point(0, 0), Point(1, 0), Point(-1, 0), Point(0, 1) }

\* how far the target of a node is from the node
PhysTargetShifts == { Point(0, 0), Point(2, 0) }

\* a third, free node that overlaps "a", or none
PhysThird ==
  { << >>,
    << PhysNode("c", Shift(PhysOrigin, Point(2, 1)), Point(0, 0),
                Shift(PhysOrigin, Point(2, 1)), FALSE) >> }

PhysConfigs ==
  { [c EXCEPT !.collisionEnabled = e] : c \in {DEFAULT_CONFIG, GraphNodesConfig},
                                        e \in BOOLEAN }

\* a simulation holding a drawn node set, about to be updated
InitPhys ==
  /\ \E off \in PhysOffsets, va \in PhysVelocitiesA, vb \in PhysVelocitiesB,
        t \in PhysTargetShifts, pa \in BOOLEAN, pb \in BOOLEAN, third \in PhysThird :
       nodes = << PhysNode("a", PhysOrigin, va, Shift(PhysOrigin, t), pa),
                  PhysNode("b", Shift(PhysOrigin, off), vb,
                           Shift(Shift(PhysOrigin, off), t), pb) >> \o third
  /\ config \in PhysConfigs
  /\ spatialGrid = << >>
  /\ forces = << >>
  /\ items = [ id \in ItemIds |-> None ]
  /\ draggedNodeId = Null
  /\ handlerDraggedNodeId = Null
  /\ dragStartPos = Null
  /\ isDragging = FALSE
  /\ dragOffset = [x |-> 0, y |-> 0]
  /\ lastPinnedNodeId = Null
  /\ isMobile = FALSE
  /\ ticks = 0
  /\ events = 0
  /\ op = "input"
  /\ pre = nodes
  /\ retarget = [ id \in ItemIds |-> NoTrail ]
  /\ call = << >>
  /\ frame = << >>
  /\ ret = << >>

\* update() on the drawn set
PhysUpdate ==
  /\ op = "input"
  /\ op' = "update"
  /\ nodes' = UpdateNodes(config, nodes)
  /\ spatialGrid' = UpdateGrid(nodes, spatialGrid)
  /\ forces' = UpdateForces(config, nodes)
  /\ UNCHANGED << config, items, dragVars, isMobile, ticks, events, pre, retarget >>
  /\ UNCHANGED << call, frame, ret >>

\* resolveCollisions() on the drawn set, as update() calls it after integration
PhysCollide ==
  /\ op = "input"
  /\ config.collisionEnabled
  /\ op' = "collide"
  /\ nodes' = ResolveCollisions(nodes)
  /\ UNCHANGED << spatialGrid, config, forces, items, dragVars, isMobile, ticks,
                  events, pre, retarget >>
  /\ UNCHANGED << call, frame, ret >>

NextPhys == PhysUpdate \/ PhysCollide

SpecPhys == InitPhys /\ [][NextPhys]_vars

\* ---------------------------------------- repeated update() of one node

\* the target of the lone node
SettleTarget == Point(0, 0)

\* where the lone node starts, relative to its target: after a drag has
\* been released, or when a synchronization has just moved the target
SettleOffsets ==
  { [x |-> 30 * Milli * 10, y |-> 0], [x |-> 20 * Milli * 10, y |-> -(10 * Milli * 10)],
    [x |-> 4 * Milli, y |-> 0], Point(0, 0) }

\* its velocity then: at rest (a released node), or still moving from
\* what it was doing before its target moved
SettleVelocities == { Point(0, 0), Point(1, 0) }

SettleConfigs == { DEFAULT_CONFIG, GraphNodesConfig }

InitSettle ==
  /\ \E off \in SettleOffsets, v \in SettleVelocities :
       nodes = << PhysNode("a", Shift(SettleTarget, off), v, SettleTarget, FALSE) >>
  /\ config \in SettleConfigs
  /\ spatialGrid = << >>
  /\ forces = << >>
  /\ items = [ id \in ItemIds |-> None ]
  /\ draggedNodeId = Null
  /\ handlerDraggedNodeId = Null
  /\ dragStartPos = Null
  /\ isDragging = FALSE
  /\ dragOffset = [x |-> 0, y |-> 0]
  /\ lastPinnedNodeId = Null
  /\ isMobile = FALSE
  /\ ticks = 0
  /\ events = 0
  /\ op = "input"
  /\ pre = nodes
  /\ retarget = [ id \in ItemIds |-> NoTrail ]
  /\ call = << >>
  /\ frame = << >>
  /\ ret = << >>

\* the render loop draws one more frame; here ticks is the parity of the
\* frames drawn
SettleFrame == ticks' = 1 - ticks

\* the useFrame callback of that frame: update() of the lone node
SettleUpdate ==
  /\ SettleFrame
  /\ op' = "update"
  /\ nodes' = UpdateNodes(config, nodes)
  /\ spatialGrid' = UpdateGrid(nodes, spatialGrid)
  /\ forces' = UpdateForces(config, nodes)
  /\ UNCHANGED << config, items, dragVars, isMobile, events, pre, retarget >>
  /\ UNCHANGED << call, frame, ret >>

NextSettle == SettleUpdate

\* the render loop never stops drawing frames
SpecSettle == InitSettle /\ [][NextSettle]_vars /\ WF_ticks(SettleFrame)

\* ------------------------------------------------------------- properties

IdsOf(ns) == { ns[i].id : i \in DOMAIN ns }

\* the squared distance of a node to its target
DistSq(n) ==
  (n.x - n.targetX) * (n.x - n.targetX) + (n.y - n.targetY) * (n.y - n.targetY)

AtRest(n) == n.vx = 0 /\ n.vy = 0

\* the distance between two nodes
Dist(a, b) == Hypot(b.x - a.x, b.y - a.y)

SamePlace(m, n) == m.x = n.x /\ m.y = n.y

\* the pair is one resolveCollisions() corrects: it overlaps, and is farther
\* apart than the minimum separation
Handled(a, b) == Dist(a, b) < a.radius + b.radius /\ Dist(a, b) > FromMilli(minSeparation)

\* C1: one call of update() leaves x, y, vx and vy of every pinned node
\* unchanged, for every node set and configuration, with collision
\* resolution enabled or not, whatever overlaps the node or lies near it.
C1_PinnedUnchanged ==
  op = "update" =>
    \A i \in DOMAIN pre :
      pre[i].pinned =>
        /\ nodes[i].x = pre[i].x /\ nodes[i].y = pre[i].y
        /\ nodes[i].vx = pre[i].vx /\ nodes[i].vy = pre[i].vy

\* an update with collision resolution has moved a free node off a pinned
\* node that it overlapped, and the pinned node has a velocity
C1_Witness ==
  /\ op = "update"
  /\ config.collisionEnabled
  /\ \E i, j \in DOMAIN pre :
       /\ pre[i].pinned /\ ~pre[j].pinned
       /\ pre[i].vx # 0
       /\ Handled(pre[i], pre[j])
       /\ ~SamePlace(nodes[j], pre[j])

NonePinned(ns) == \A i \in DOMAIN ns : ~ns[i].pinned

\* C2 as claimed: on desktop, once a release (mouseup or mouseleave) has
\* been handled, no node of the simulation is pinned, for every
\* interleaving of pointer-down, mouse-move, release, re-render and tick
\* events.
C2_ReleaseUnpins == (op = "mouseup" /\ ~isMobile) => NonePinned(nodes)

\* C3: a pinned node has velocity exactly (0,0) in every state: drag start
\* pins it and zeroes its velocity in one step, and nothing gives it a
\* velocity until it is unpinned.
C3_PinnedAtRest == \A i \in DOMAIN nodes : nodes[i].pinned => AtRest(nodes[i])

\* a tick has run over a pinned node next to a free node that it has set
\* in motion
C3_Witness ==
  /\ op = "tick"
  /\ \E i, j \in DOMAIN nodes :
       /\ nodes[i].pinned /\ ~nodes[j].pinned
       /\ ~AtRest(nodes[j])

\* C4: when a synchronization has changed the target of a node while it
\* was pinned, the first update() after the node is unpinned finds the node
\* free, at rest and with the updated target, and the force it computes
\* for the node is the spring term (target - position) x targetStrength of
\* the updated target plus the forces of the node's neighbours.
C4_ResumesTowardNewTarget ==
  [][ \A id \in ItemIds :
        (retarget[id].st = "released" /\ retarget'[id].st = "resumed") =>
          LET n == GetNode(nodes, id)
              tgt == retarget[id].tgt
              near == NeighborForces(config, n,
                                     GetNeighbors(nodes, BuildSpatialGrid(nodes), n), 1)
          IN  /\ ~n.pinned
              /\ AtRest(n)
              /\ n.targetX = tgt.x /\ n.targetY = tgt.y
              /\ forces'[id].fx - near.fx = MulK(tgt.x - n.x, config.targetStrength)
              /\ forces'[id].fy - near.fy = MulK(tgt.y - n.y, config.targetStrength) ]_vars

\* the first update() after the release of a node whose target changed
\* while it was pinned has pulled the node toward the new target
C4_Witness ==
  \E id \in ItemIds :
    /\ retarget[id].st = "resumed"
    /\ HasNode(nodes, id)
    /\ forces[id] # ZeroForce
    /\ ~AtRest(GetNode(nodes, id))

Visible(its) == { id \in ItemIds : IsSome(its[id]) }

VisibleWithTarget(its) == { id \in Visible(its) : IsSome(Get(its[id]).umap_coords) }

\* C5 as claimed: after every synchronization the set of node ids equals
\* the set of ids of visible items that have a target position.
C5_NodesAreItemsWithTarget == IdsOf(nodes) = VisibleWithTarget(items)

\* C5, amended: after every synchronization the nodes are those of the
\* visible items that have a target position or had a node before the
\* synchronization: an item that loses its target while it stays visible
\* keeps its node.
C5_NodesFollowLifecycle ==
  [][ op' = "items" =>
        IdsOf(nodes') =
          { id \in Visible(items') :
              IsSome(Get(items'[id]).umap_coords) \/ HasNode(nodes, id) } ]_vars

\* a synchronization has added one node, updated or removed another, and
\* left a node to a visible item that has no target
C5_Witness ==
  /\ op = "items"
  /\ \E id \in Visible(items) \ VisibleWithTarget(items) : HasNode(nodes, id)
  /\ VisibleWithTarget(items) # {}

\* C6 as claimed: a single free node with no neighbours and a fixed target
\* eventually has velocity exactly (0,0) and never moves again, and at no
\* tick is it farther from its target than it was initially, whatever its
\* initial velocity.
C6_SettlesNeverFarther ==
  /\ <>[](AtRest(nodes[1]))
  /\ <>[][nodes'[1].x = nodes[1].x /\ nodes'[1].y = nodes[1].y]_vars
  /\ [](DistSq(nodes[1]) <= DistSq(pre[1]))

\* C6, amended: a single free node with no neighbours and a fixed target,
\* under DEFAULT_CONFIG or the configuration of GraphNodes, eventually has
\* velocity exactly (0,0) and never moves again; if it starts at rest, at
\* no tick is it farther from its target than it was initially.
C6_SettlesFromRest ==
  /\ <>[](AtRest(nodes[1]))
  /\ <>[][nodes'[1].x = nodes[1].x /\ nodes'[1].y = nodes[1].y]_vars
  /\ [](AtRest(pre[1]) => DistSq(nodes[1]) <= DistSq(pre[1]))

\* a node that started at rest away from its target has moved and has
\* come to rest again
C6_Witness ==
  /\ op = "update"
  /\ AtRest(pre[1]) /\ AtRest(nodes[1])
  /\ nodes[1].x # pre[1].x

\* the sum of the repulsion of every other node of ns on node
RECURSIVE RepulsionFromAll(_, _, _, _)
RepulsionFromAll(cfg, ns, node, k) ==
  IF k > Len(ns) THEN ZeroForce
  ELSE IF ns[k].id = node.id THEN RepulsionFromAll(cfg, ns, node, k + 1)
  ELSE AddForce(Repulsion(cfg, node, ns[k]), RepulsionFromAll(cfg, ns, node, k + 1))

\* C7 as claimed: in one update() every free node receives, from every
\* other node at a distance d with 0.01 < d < repulsionRadius, a repulsion
\* of magnitude repulsionStrength x (1 - d/repulsionRadius) directed away
\* from it, and none from a node at repulsionRadius or more.  (The nodes
\* here carry no tags and no collections, so the force on a node is its
\* spring plus the repulsions.)
C7_RepulsionFromEveryNodeInRadius ==
  op = "update" =>
    \A i \in DOMAIN pre :
      ~pre[i].pinned =>
        forces[pre[i].id] =
          AddForce(TargetAttraction(config, pre[i]), RepulsionFromAll(config, pre, pre[i], 1))

\* C8 as claimed: with collision resolution enabled, every pair of nodes
\* closer than the sum of their radii, and not both pinned, is pushed
\* apart by resolveCollisions().
C8_EveryOverlapCorrected ==
  (op = "collide" /\ Len(pre) = 2) =>
    ((Dist(pre[1], pre[2]) < pre[1].radius + pre[2].radius
        /\ ~(pre[1].pinned /\ pre[2].pinned))
       => Dist(nodes[1], nodes[2]) > Dist(pre[1], pre[2]))

\* two lengths that differ by rounding only
Near(u, v) == Abs(u - v) <= Unit \div 500

\* how far node n of the result is from where it was
Moved(i) == Hypot(nodes[i].x - pre[i].x, nodes[i].y - pre[i].y)

\* C9: for one overlapping pair that collision resolution handles: two free
\* nodes are moved by half the overlap each, in opposite directions, and
\* end at the sum of their radii from each other; with exactly one pinned,
\* the free node is moved by the whole overlap to that distance and the
\* pinned one is not moved; with both pinned neither is moved.
C9_OverlapSplit ==
  (op = "collide" /\ Len(pre) = 2 /\ Handled(pre[1], pre[2])) =>
    LET a == pre[1]
        b == pre[2]
        minDist == a.radius + b.radius
        overlap == minDist - Dist(a, b)
    IN  /\ (~a.pinned /\ ~b.pinned) =>
             /\ nodes[1].x - a.x = -(nodes[2].x - b.x)
             /\ nodes[1].y - a.y = -(nodes[2].y - b.y)
             /\ Near(2 * Moved(1), overlap)
             /\ Near(Dist(nodes[1], nodes[2]), minDist)
        /\ (a.pinned /\ ~b.pinned) =>
             /\ SamePlace(nodes[1], a)
             /\ Near(Moved(2), overlap)
             /\ Near(Dist(nodes[1], nodes[2]), minDist)
        /\ (~a.pinned /\ b.pinned) =>
             /\ SamePlace(nodes[2], b)
             /\ Near(Moved(1), overlap)
             /\ Near(Dist(nodes[1], nodes[2]), minDist)
        /\ (a.pinned /\ b.pinned) =>
             /\ SamePlace(nodes[1], a)
             /\ SamePlace(nodes[2], b)

\* collision resolution has handled a pair with one node pinned and has
\* moved the free node only
C9_Witness ==
  /\ op = "collide" /\ Len(pre) = 2 /\ Handled(pre[1], pre[2])
  /\ pre[1].pinned /\ ~pre[2].pinned
  /\ ~SamePlace(nodes[2], pre[2])

\* the separation of a and b is shrinking: (b - a) . (vb - va) < 0
Approaching(a, b) ==
  ((b.x - a.x) \div 1000) * ((b.vx - a.vx) \div 1000)
    + ((b.y - a.y) \div 1000) * ((b.vy - a.vy) \div 1000) < 0

\* C10 as claimed: collision resolution changes the velocities of a handled
\* pair exactly when the two nodes are approaching each other, and never
\* when they are moving apart.
C10_BounceWhenApproaching ==
  (op = "collide" /\ Len(pre) = 2 /\ Handled(pre[1], pre[2])
     /\ ~(pre[1].pinned /\ pre[2].pinned)) =>
    ((\E i \in 1..2 : nodes[i].vx # pre[i].vx \/ nodes[i].vy # pre[i].vy)
       <=> Approaching(pre[1], pre[2]))

\* -------------------------------------------- similarity of two items
\* (src/lib/tagSimilarity.ts, src/lib/embeddings.ts, src/lib/similarityLayout.ts)

\* A JS number that may be NaN: v counts 1/Unit when nan is FALSE.
Num(n) == [nan |-> FALSE, v |-> n]
NaN == [nan |-> TRUE, v |-> 0]

RECURSIVE SumSeq(_)
SumSeq(s) == IF Len(s) = 0 THEN 0 ELSE s[1] + SumSeq(Tail(s))

\* The fields of a ContentItem the similarity and layout functions read.
\* An optional field is None or Some(value).  created_at is Some(hours) for
\* a Firestore Timestamp and a pair << seconds, nanoseconds >> for a plain
\* object that has no toDate method.
ContentItem(id, tags, aiTags, collectionId, collection_ids, created_at, averageColor, embedding) ==
  [id |-> id, tags |-> tags, aiTags |-> aiTags, collectionId |-> collectionId,
   collection_ids |-> collection_ids, created_at |-> created_at,
   averageColor |-> averageColor, embedding |-> embedding]

SimItems ==
  { ContentItem("a1", Some(<< "cat", "pet" >>), None, Some("c1"), None,
                None, None, None),
    ContentItem("a2", Some(<< "cat", "animal" >>), None, Some("c1"), None,
                None, None, None),
    ContentItem("a3", None, None, None, None,
                Some(0), Some(<< 0, 0, 0 >>), Some(<< 1, 0 >>)),
    ContentItem("a4", Some(<< "Cat" >>), Some(<< "cat" >>), Some(""),
                Some(<< "c2", "c1" >>),
                Some(240), Some(<< 255, 255, 255 >>), Some(<< -1, 0 >>)),
    ContentItem("a5", Some(<< "pet" >>), Some(<< >>), Some("c2"), None,
                Some(1080), Some(<< 255, 0, 0 >>), Some(<< 0, 0 >>)),
    ContentItem("a6", Some(<< >>), None, None, Some(<< >>),
                << 0, 0 >>, Some(<< 10, 20, 30 >>), Some(<< 3, 4, 0 >>)),
    ContentItem("a7", Some(<< "pet" >>), Some(<< "animal", "Pet" >>), None,
                Some(<< "c3" >>),
                Some(12), Some(<< 0, 0, 128 >>), Some(<< >>)),
    ContentItem("a8", None, Some(<< "dog" >>), Some("c3"), Some(<< "c3" >>),
                Some(252), Some(<< 10, 20, 30 >>), Some(<< 4, 3 >>)) }

\* Weights in thousandths.
DEFAULT_WEIGHTS ==
  [tags |-> 300, collection |-> 500, uploadDate |-> 100, color |-> 100]

calculateTagSimilarityByLength(tagsA, tagsB) ==
  IF Len(tagsA) = 0 \/ Len(tagsB) = 0 THEN 0
  ELSE LET setA == { ToLowerCase(t) : t \in Range(tagsA) }
           setB == { ToLowerCase(t) : t \in Range(tagsB) }
           intersection == setA \cap setB
       IN  (Cardinality(intersection) * Unit)
             \div (Len(tagsA) + Len(tagsB) - Cardinality(intersection))

calculateTagSimilarity(tagsA, tagsB) ==
  IF Len(tagsA) = 0 \/ Len(tagsB) = 0 THEN 0
  ELSE LET setA == { ToLowerCase(t) : t \in Range(tagsA) }
           setB == { ToLowerCase(t) : t \in Range(tagsB) }
           intersection == setA \cap setB
           union == setA \cup setB
       IN  (Cardinality(intersection) * Unit) \div Cardinality(union)

calculateCollectionSimilarity(itemA, itemB) ==
  LET collections(item) ==
        (IF IsSome(item.collection_ids) THEN Range(Get(item.collection_ids))
         ELSE {})
        \cup (IF IsSome(item.collectionId) /\ Get(item.collectionId) # ""
              THEN { Get(item.collectionId) } ELSE {})
      collectionsA == collections(itemA)
      collectionsB == collections(itemB)
  IN  IF collectionsA = {} \/ collectionsB = {} THEN 0
      ELSE IF collectionsA \cap collectionsB # {} THEN Unit ELSE 0

calculateDateSimilarity(itemA, itemB) ==
  IF itemA.created_at = None \/ itemB.created_at = None THEN 0
  ELSE IF Len(itemA.created_at) # 1 \/ Len(itemB.created_at) # 1 THEN 0
  ELSE LET diffHours == Abs(Get(itemA.created_at) - Get(itemB.created_at))
       IN  Max(0, Unit - (diffHours * Unit) \div (24 * 30))

calculateColorSimilarity(itemA, itemB) ==
  IF ~IsSome(itemA.averageColor) \/ ~IsSome(itemB.averageColor) THEN 0
  ELSE LET c1 == Get(itemA.averageColor)
           c2 == Get(itemB.averageColor)
           sq(d) == d * d
           distance == ISqrt((sq(c1[1] - c2[1]) + sq(c1[2] - c2[2])
                                + sq(c1[3] - c2[3])) * 10000)
           maxDistance == ISqrt(3 * sq(255) * 10000)
       IN  Unit - MulRatio(Unit, distance, maxDistance)

getItemTags(item) ==
  (IF IsSome(item.aiTags) THEN Get(item.aiTags) ELSE << >>)
    \o (IF IsSome(item.tags) THEN Get(item.tags) ELSE << >>)

calculateWeightedSimilaritySwapped(itemA, itemB, weights) ==
  LET w == IF IsSome(weights) THEN Get(weights) ELSE DEFAULT_WEIGHTS
  IN  MulK(calculateTagSimilarity(getItemTags(itemA), getItemTags(itemB)),
           w.collection)
        + MulK(calculateCollectionSimilarity(itemA, itemB), w.tags)
        + MulK(calculateDateSimilarity(itemA, itemB), w.uploadDate)
        + MulK(calculateColorSimilarity(itemA, itemB), w.color)

calculateWeightedSimilarity(itemA, itemB, weights) ==
  LET w == IF IsSome(weights) THEN Get(weights) ELSE DEFAULT_WEIGHTS
      tagsA == getItemTags(itemA)
      tagsB == getItemTags(itemB)
      tagSim == calculateTagSimilarity(tagsA, tagsB)
      collectionSim == calculateCollectionSimilarity(itemA, itemB)
      dateSim == calculateDateSimilarity(itemA, itemB)
      colorSim == calculateColorSimilarity(itemA, itemB)
  IN  MulK(tagSim, w.tags) + MulK(collectionSim, w.collection)
        + MulK(dateSim, w.uploadDate) + MulK(colorSim, w.color)

\* The loop runs over the indices of a.  Reading b past its end yields
\* undefined, which turns every sum it enters into NaN; 0 / 0 is NaN too, and
\* a zero norm always comes with a zero dot product.  The square roots carry
\* three decimals.
cosineSimilarity(a, b) ==
  LET n == Len(a)
      dotProduct == SumSeq([i \in 1..n |-> a[i] * b[i]])
      normA == SumSeq([i \in 1..n |-> a[i] * a[i]])
      normB == SumSeq([i \in 1..n |-> b[i] * b[i]])
      denominator == (ISqrt(normA * 1000000) * ISqrt(normB * 1000000)) \div 1000
  IN  IF n > Len(b) THEN NaN
      ELSE IF normA = 0 \/ normB = 0 THEN NaN
      ELSE Num(DivK(dotProduct * Unit, denominator))

calculateEmbeddingSimilarity(itemA, itemB) ==
  IF ~IsSome(itemA.embedding) \/ ~IsSome(itemB.embedding) THEN Num(0)
  ELSE IF Len(Get(itemA.embedding)) = 0 \/ Len(Get(itemB.embedding)) = 0
       THEN Num(0)
  ELSE cosineSimilarity(Get(itemA.embedding), Get(itemB.embedding))

\* ---------------------------------- the similarity functions on drawn items

\* The graph view is not mounted while a library function runs on its own.
graphVars == << nodes, spatialGrid, config, forces, items, dragVars, isMobile,
                ticks, events, pre, retarget >>

GraphIdle ==
  /\ nodes = << >>
  /\ spatialGrid = << >>
  /\ config = GraphNodesConfig
  /\ forces = << >>
  /\ items = [ id \in ItemIds |-> None ]
  /\ draggedNodeId = Null
  /\ handlerDraggedNodeId = Null
  /\ dragStartPos = Null
  /\ isDragging = FALSE
  /\ dragOffset = [x |-> 0, y |-> 0]
  /\ lastPinnedNodeId = Null
  /\ isMobile = FALSE
  /\ ticks = 0
  /\ events = 0
  /\ pre = << >>
  /\ retarget = [ id \in ItemIds |-> NoTrail ]

InitSim ==
  /\ GraphIdle
  /\ op = "input"
  /\ frame = << >>
  /\ call \in [ itemA : SimItems, itemB : SimItems,
                weights : { None,
                            Some([tags |-> 500, collection |-> 0,
                                  uploadDate |-> 250, color |-> 250]) } ]
  /\ ret = None

\* calculateWeightedSimilarity, with its four local component scores.
CallWeightedSimilarity ==
  /\ op = "input"
  /\ op' = "calculateWeightedSimilarity"
  /\ ret' = Some([tagSim |-> calculateTagSimilarity(getItemTags(call.itemA),
                                                    getItemTags(call.itemB)),
                  collectionSim |->
                    calculateCollectionSimilarity(call.itemA, call.itemB),
                  dateSim |-> calculateDateSimilarity(call.itemA, call.itemB),
                  colorSim |-> calculateColorSimilarity(call.itemA, call.itemB),
                  score |-> calculateWeightedSimilarity(call.itemA, call.itemB,
                                                        call.weights)])
  /\ UNCHANGED << graphVars, call, frame >>

CallEmbeddingSimilarity ==
  /\ op = "input"
  /\ op' = "calculateEmbeddingSimilarity"
  /\ ret' = Some([embeddingSim |->
                    calculateEmbeddingSimilarity(call.itemA, call.itemB)])
  /\ UNCHANGED << graphVars, call, frame >>

NextSim == CallWeightedSimilarity \/ CallEmbeddingSimilarity

SpecSim == InitSim /\ [][NextSim]_vars

\* ----------------------------------------------- properties of similarity

InUnit(n) == 0 <= n /\ n <= Unit

\* C11: every component similarity of two items (tag, collection, date,
\* colour, embedding) is a number between 0 and 1.
C11_ComponentsInUnitInterval ==
  /\ op = "calculateWeightedSimilarity" =>
       /\ InUnit(Get(ret).tagSim)
       /\ InUnit(Get(ret).collectionSim)
       /\ InUnit(Get(ret).dateSim)
       /\ InUnit(Get(ret).colorSim)
  /\ op = "calculateEmbeddingSimilarity" =>
       /\ ~Get(ret).embeddingSim.nan
       /\ InUnit(Get(ret).embeddingSim.v)

\* C12 as stated: the tag similarity of any tag list with itself is 1.
C12_TagSelfSimilarityIsOne ==
  (op = "calculateWeightedSimilarity"
     /\ getItemTags(call.itemA) = getItemTags(call.itemB)) =>
    Get(ret).tagSim = Unit

\* C12 amended: the tag similarity of any non-empty tag list with itself is
\* 1; two empty lists score 0.
C12_NonEmptyTagSelfSimilarityIsOne ==
  (op = "calculateWeightedSimilarity"
     /\ getItemTags(call.itemA) = getItemTags(call.itemB)) =>
    Get(ret).tagSim = (IF getItemTags(call.itemA) = << >> THEN 0 ELSE Unit)

C12_Witness ==
  /\ op = "calculateWeightedSimilarity"
  /\ getItemTags(call.itemA) = << "cat", "Cat" >>
  /\ getItemTags(call.itemB) = << "cat", "Cat" >>
  /\ Get(ret).tagSim = Unit

Norm2(vec) == SumSeq([i \in DOMAIN vec |-> vec[i] * vec[i]])

Unusable(e) == ~IsSome(e) \/ Len(Get(e)) = 0 \/ Norm2(Get(e)) = 0

\* C13: the embedding similarity is the number 0 whenever either embedding
\* is missing, empty or of zero norm, or the two differ in length.
C13_DegenerateEmbeddingsScoreZero ==
  (op = "calculateEmbeddingSimilarity"
     /\ (\/ Unusable(call.itemA.embedding)
         \/ Unusable(call.itemB.embedding)
         \/ Len(Get(call.itemA.embedding)) # Len(Get(call.itemB.embedding)))) =>
    Get(ret).embeddingSim = Num(0)

\* C14: the weighted similarity is the sum of the four component scores,
\* each times its weight, the weights being 0.3, 0.5, 0.1, 0.1 when none are
\* given; same collection, tags [cat, pet] and [cat, animal], no date and no
\* colour give (1/3) x 0.3 + 0.5.
C14_WeightedSum ==
  op = "calculateWeightedSimilarity" =>
    LET r == Get(ret)
        w == IF IsSome(call.weights) THEN Get(call.weights)
             ELSE [tags |-> 300, collection |-> 500, uploadDate |-> 100,
                   color |-> 100]
    IN  /\ r.score = MulK(r.tagSim, w.tags) + MulK(r.collectionSim, w.collection)
                       + MulK(r.dateSim, w.uploadDate) + MulK(r.colorSim, w.color)
        /\ (call.itemA.id = "a1" /\ call.itemB.id = "a2" /\ ~IsSome(call.weights))
             => Near(r.score, MulK(Unit \div 3, 300) + Unit \div 2)

C14_Witness ==
  /\ op = "calculateWeightedSimilarity"
  /\ call.itemA.id = "a1" /\ call.itemB.id = "a2" /\ ~IsSome(call.weights)
  /\ Near(Get(ret).score, 6 * (Unit \div 10))

\* ------------------------------ generateSimilarityBasedLayout
\* (src/lib/similarityLayout.ts)

Truthy(collectionId) == IsSome(collectionId) /\ Get(collectionId) # ""

\* The keys of collectionMap, in insertion order.
RECURSIVE CollectionKeys(_, _)
CollectionKeys(its, keys) ==
  IF Len(its) = 0 THEN keys
  ELSE LET primaryCollection == Head(its).collectionId
       IN  CollectionKeys(Tail(its),
             IF Truthy(primaryCollection)
                  /\ Get(primaryCollection) \notin Range(keys)
             THEN Append(keys, Get(primaryCollection)) ELSE keys)

\* Math.random() - 0.5: the k-th draw of a call reads a tape of drawn values,
\* cyclically.
RandomOffset(rand, k) == rand[((k - 1) % Len(rand)) + 1]

\* Centre of the index-th collection (0-based).  cos and sin of index * 2.4
\* are tabulated to five decimals.
SpiralCentreNoGrowth(index) ==
  LET cos == << 100000, -73739, 8750, 60835 >>[index + 1]
      sin == << 0, 67546, -99616, 79367 >>[index + 1]
      radius == 15 * Unit
  IN  [x |-> MulRatio(radius, cos, Unit), y |-> MulRatio(radius, sin, Unit)]

SpiralCentre(index) ==
  LET cos == << 100000, -73739, 8750, 60835 >>[index + 1]
      sin == << 0, 67546, -99616, 79367 >>[index + 1]
      radius == 15 * Unit + ISqrt(index * 100000000) * 8 * (Unit \div 10000)
  IN  [x |-> MulRatio(radius, cos, Unit), y |-> MulRatio(radius, sin, Unit)]

ClusterRadius(n) == Min(12 * Unit, 4 * Unit + n * 3 * (Unit \div 10))

\* The force the pair (i, j), i < j, puts on item i; item j gets the opposite.
\* A NaN similarity fails the comparison with 0.15.
PairForce(pi, pj, itemI, itemJ) ==
  LET dx == pj.x - pi.x
      dy == pj.y - pi.y
      dist == Hypot(dx, dy) + Unit \div 100
      tagSim == calculateTagSimilarity(getItemTags(itemI), getItemTags(itemJ))
      embeddingSim == calculateEmbeddingSimilarity(itemI, itemJ)
      combinedSim == MulK(embeddingSim.v, 700) + MulK(tagSim, 300)
      attracts == ~embeddingSim.nan /\ combinedSim > 15 * (Unit \div 100)
      attraction == MulK(combinedSim, 400)
      repels == dist < 5 * Unit
      repulsion == DivK((2000000000 \div dist) * 1000, dist)
  IN  [fx |-> (IF attracts THEN MulRatio(dx, attraction, Unit) ELSE 0)
                - (IF repels THEN MulRatio(repulsion, dx, dist) ELSE 0),
       fy |-> (IF attracts THEN MulRatio(dy, attraction, Unit) ELSE 0)
                - (IF repels THEN MulRatio(repulsion, dy, dist) ELSE 0)]

\* One iteration of the in-collection simulation: forces, then velocities
\* and positions.
ClusterStep(cp, its, c, clusterRadius) ==
  LET n == Len(cp)
      pair(i, j) == IF i < j THEN PairForce(cp[i], cp[j], its[i], its[j])
                    ELSE PairForce(cp[j], cp[i], its[j], its[i])
      sign(i, j) == IF i < j THEN 1 ELSE IF i > j THEN -1 ELSE 0
      toCenterX(i) == c.x - cp[i].x
      toCenterY(i) == c.y - cp[i].y
      centerDist(i) == Hypot(toCenterX(i), toCenterY(i))
      pulled(i) == centerDist(i) > clusterRadius
      fx(i) == SumSeq([j \in 1..n |->
                         IF j = i THEN 0 ELSE sign(i, j) * pair(i, j).fx])
                 + (IF pulled(i)
                    THEN MulRatio(Unit \div 2, toCenterX(i), centerDist(i))
                    ELSE 0)
      fy(i) == SumSeq([j \in 1..n |->
                         IF j = i THEN 0 ELSE sign(i, j) * pair(i, j).fy])
                 + (IF pulled(i)
                    THEN MulRatio(Unit \div 2, toCenterY(i), centerDist(i))
                    ELSE 0)
      moved(i) == LET vx == MulK(cp[i].vx + MulK(fx(i), 300), 700)
                      vy == MulK(cp[i].vy + MulK(fy(i), 300), 700)
                  IN  [x |-> cp[i].x + vx, y |-> cp[i].y + vy,
                       vx |-> vx, vy |-> vy]
  IN  [i \in 1..n |-> moved(i)]

\* positions.get(id) || { x: 0, y: 0 }: the last write for the id in the
\* sequence of writes into the positions map.
PositionOf(positions, id) ==
  LET hits == { i \in DOMAIN positions : positions[i].id = id }
  IN  IF hits = {} THEN [x |-> 0, y |-> 0]
      ELSE LET last == CHOOSE i \in hits : \A j \in hits : j <= i
           IN  [x |-> positions[last].x, y |-> positions[last].y]

LayoutResultGrouped(its, positions) ==
  [i \in 1..Len(positions) |-> [x |-> positions[i].x, y |-> positions[i].y]]

\* items.map(item => positions.get(item.id) || { x: 0, y: 0 })
LayoutResult(its, positions) ==
  [i \in 1..Len(its) |-> PositionOf(positions, its[i].id)]

\* ----------------------------------------- the layout on drawn item lists

LayoutItem(id, tags, collectionId, embedding) ==
  ContentItem(id, tags, None, collectionId, None, None, None, embedding)

LayoutLists ==
  LET p == LayoutItem("p", Some(<< "cat", "pet" >>), Some("c1"), Some(<< 1, 0 >>))
      q == LayoutItem("q", Some(<< "cat" >>), Some("c1"), Some(<< 4, 3 >>))
      r == LayoutItem("r", None, Some("c1"), Some(<< -1, 0 >>))
      s == LayoutItem("s", Some(<< "dog" >>), Some("c2"), None)
      t == LayoutItem("t", None, Some("c3"), Some(<< 0, 0 >>))
      u == LayoutItem("u", Some(<< "pet" >>), None, None)
      v == LayoutItem("v", None, Some(""), Some(<< 1, 0 >>))
  IN  { << >>, << p >>, << u >>, << p, s >>, << p, q >>, << p, r >>,
        << s, p, u, q >>, << u, s, t >>, << u, v >>, << q, s, r >>,
        << p, s, t >> }

\* Values of Math.random() - 0.5, in [-0.5, 0.5).
RandomOffsets == { -(Unit \div 2), -(Unit \div 2) + 2 * (Unit \div 100),
                   3 * (Unit \div 10) }

InitLayout ==
  /\ GraphIdle
  /\ op = "input"
  /\ call \in [ items : LayoutLists, rand : [ 1..4 -> RandomOffsets ] ]
  /\ frame = << >>
  /\ ret = None

\* The members of collection k of the running call, in input order.
CollectionItems ==
  SelectSeq(call.items, LAMBDA it : Truthy(it.collectionId)
                                      /\ Get(it.collectionId) = frame.keys[frame.k])

\* The early returns, or the grouping by primary collection.
LayoutBegin ==
  /\ op = "input"
  /\ IF Len(call.items) <= 1
     THEN /\ op' = "generateSimilarityBasedLayout"
          /\ ret' = Some([positions |-> << >>,
                          coords |-> IF Len(call.items) = 0 THEN << >>
                                     ELSE << [x |-> 0, y |-> 0] >>])
          /\ frame' = frame
     ELSE /\ op' = "collections"
          /\ frame' = [keys |-> CollectionKeys(call.items, << >>), k |-> 1,
                       used |-> 0, positions |-> << >>,
                       clusterPositions |-> << >>, iter |-> 0]
          /\ ret' = ret
  /\ UNCHANGED << graphVars, call >>

\* One round of collections.forEach up to the start of its simulation: a
\* single item goes to the centre, several items are jittered around it.
LayoutCollection ==
  /\ op = "collections"
  /\ frame.k <= Len(frame.keys)
  /\ LET n == Len(CollectionItems)
         c == SpiralCentre(frame.k - 1)
         clusterRadius == ClusterRadius(n)
         jitter(j) == MulK(MulK(RandomOffset(call.rand, frame.used + j),
                                clusterRadius \div Milli), 500)
     IN  IF n = 1
         THEN /\ frame' = [frame EXCEPT
                   !.positions = Append(@, [id |-> CollectionItems[1].id,
                                            x |-> c.x, y |-> c.y]),
                   !.k = @ + 1]
              /\ op' = op
         ELSE /\ frame' = [frame EXCEPT
                   !.clusterPositions =
                      [i \in 1..n |-> [x |-> c.x + jitter(2 * i - 1),
                                       y |-> c.y + jitter(2 * i),
                                       vx |-> 0, vy |-> 0]],
                   !.iter = 0,
                   !.used = @ + 2 * n]
              /\ op' = "simulate"
  /\ UNCHANGED << graphVars, call, ret >>

\* One iteration of the 100 of the in-collection simulation.
LayoutIterate ==
  /\ op = "simulate"
  /\ frame.iter < 100
  /\ frame' = [frame EXCEPT
       !.clusterPositions =
          ClusterStep(@, CollectionItems, SpiralCentre(frame.k - 1),
                      ClusterRadius(Len(CollectionItems))),
       !.iter = @ + 1]
  /\ UNCHANGED << graphVars, call, ret, op >>

\* After the last iteration the final positions are stored.
LayoutStore ==
  /\ op = "simulate"
  /\ frame.iter = 100
  /\ frame' = [frame EXCEPT
       !.positions = @ \o [i \in 1..Len(CollectionItems) |->
                             [id |-> CollectionItems[i].id,
                              x |-> frame.clusterPositions[i].x,
                              y |-> frame.clusterPositions[i].y]],
       !.clusterPositions = << >>,
       !.k = @ + 1]
  /\ op' = "collections"
  /\ UNCHANGED << graphVars, call, ret >>

\* After the last collection the items without one are scattered and the
\* positions are returned in input order.
LayoutReturn ==
  /\ op = "collections"
  /\ frame.k > Len(frame.keys)
  /\ LET noCollection ==
           SelectSeq(call.items, LAMBDA it : ~Truthy(it.collectionId))
         positions ==
           frame.positions \o
             [i \in 1..Len(noCollection) |->
                [id |-> noCollection[i].id,
                 x |-> RandomOffset(call.rand, frame.used + 2 * i - 1) * 8,
                 y |-> RandomOffset(call.rand, frame.used + 2 * i) * 8]]
     IN  /\ frame' = [frame EXCEPT !.positions = positions]
         /\ ret' = Some([positions |-> positions,
                         coords |-> LayoutResult(call.items, positions)])
  /\ op' = "generateSimilarityBasedLayout"
  /\ UNCHANGED << graphVars, call >>

NextLayout ==
  \/ LayoutBegin
  \/ LayoutCollection
  \/ LayoutIterate
  \/ LayoutStore
  \/ LayoutReturn

SpecLayout == InitLayout /\ [][NextLayout]_vars

\* --------------------------------------------------- properties of layout

\* C15: the layout returns one position per input item, the position at
\* index i being the one stored for the item at index i, and the empty list
\* for the empty list.
C15_OnePositionPerItemInOrder ==
  op = "generateSimilarityBasedLayout" =>
    LET its == call.items
        out == Get(ret)
    IN  /\ Len(out.coords) = Len(its)
        /\ DOMAIN out.coords = DOMAIN its
        /\ Len(its) >= 2 =>
             \A i \in DOMAIN its :
               \E w \in DOMAIN out.positions :
                 /\ out.positions[w].id = its[i].id
                 /\ out.coords[i].x = out.positions[w].x
                 /\ out.coords[i].y = out.positions[w].y
        /\ Len(its) = 0 => out.coords = << >>

C15_Witness ==
  /\ op = "generateSimilarityBasedLayout"
  /\ Len(call.items) = 4
  /\ call.items[3].id = "u"
  /\ Get(ret).positions[3].id = "q"
  /\ Len(Get(ret).coords) = 4
  /\ Get(ret).coords[4].x = Get(ret).positions[3].x

\* The centre of the index-th collection: radius 15 + sqrt(index) * 8 at
\* angle index * 2.4.
ExpectedCentre(index) ==
  << [x |-> 1500000, y |-> 0], [x |-> -1696006, y |-> 1553565],
     [x |-> 230242, y |-> -2621278] >>[index + 1]

CloseTo(pt, c) == Near(pt.x, c.x) /\ Near(pt.y, c.y)

\* The items of the list that are the only member of their primary
\* collection, each with the 0-based index of that collection.
Singles(its) ==
  { i \in DOMAIN its :
      /\ Truthy(its[i].collectionId)
      /\ \A j \in DOMAIN its :
           j # i => its[j].collectionId # its[i].collectionId }

IndexOfCollection(its, i) ==
  Cardinality({ Get(its[j].collectionId) :
                  j \in { h \in 1..(i - 1) : Truthy(its[h].collectionId) } })

\* C16 as stated: in every list, an item that is the only member of its
\* primary collection is at that collection's spiral centre.
C16_SingleMemberAtCentre ==
  op = "generateSimilarityBasedLayout" =>
    \A i \in Singles(call.items) :
      CloseTo(Get(ret).coords[i],
              ExpectedCentre(IndexOfCollection(call.items, i)))

\* C16 amended: in every list of two or more items, an item that is the only
\* member of its primary collection is at that collection's spiral centre;
\* a list of one item is answered with the origin.
C16_SingleMemberAtCentreInLongerLists ==
  op = "generateSimilarityBasedLayout" =>
    /\ Len(call.items) >= 2 =>
         \A i \in Singles(call.items) :
           CloseTo(Get(ret).coords[i],
                   ExpectedCentre(IndexOfCollection(call.items, i)))
    /\ Len(call.items) = 1 => Get(ret).coords = << [x |-> 0, y |-> 0] >>

C16_Witness ==
  /\ op = "generateSimilarityBasedLayout"
  /\ Len(call.items) = 3
  /\ Singles(call.items) = { 2, 3 }
  /\ CloseTo(Get(ret).coords[3], ExpectedCentre(1))

\* C17: after the 100 iterations every item of a collection with several
\* items is within min(12, 4 + itemCount * 0.3) of the collection's centre.
C17_ClusterWithinRadius ==
  op = "generateSimilarityBasedLayout" =>
    \A i \in DOMAIN call.items :
      LET its == call.items
          mates == { j \in DOMAIN its :
                       its[j].collectionId = its[i].collectionId }
          first == CHOOSE j \in mates : \A h \in mates : j <= h
          c == ExpectedCentre(IndexOfCollection(its, first))
          pt == Get(ret).coords[i]
      IN  (Truthy(its[i].collectionId) /\ Cardinality(mates) >= 2) =>
            Hypot(pt.x - c.x, pt.y - c.y)
              <= Min(12 * Unit, 4 * Unit + Cardinality(mates) * 30000)

\* ------------------------------------- density scaling and PCA (src/lib/umap.ts)

\* a * b / Unit and a / n on fixed-point numbers, rounded toward zero.
MulU(a, b) == Sgn(a) * Sgn(b) * (MulK(Abs(a), Abs(b)) \div 100)
DivN(a, n) == Sgn(a) * (Abs(a) \div n)

\* densities: for each point the number of other points at a distance below
\* densityRadius.  Coordinates carry at most three decimals here, so the
\* comparison of the squares is exact.
Densities(coords, densityRadius) ==
  [i \in DOMAIN coords |->
     Cardinality({ j \in DOMAIN coords :
       /\ j # i
       /\ LET dx == (coords[j].x - coords[i].x) \div Milli
              dy == (coords[j].y - coords[i].y) \div Milli
              r == densityRadius \div Milli
          IN  dx * dx + dy * dy < r * r })]

\* scaleFactor of every point, in thousandths; compressionFactor is in
\* thousandths too.
ScaleFactors(densities, compressionFactor) ==
  LET maxDensity == CHOOSE d \in Range(densities) :
                      \A e \in Range(densities) : e <= d
  IN  [i \in DOMAIN densities |->
         compressionFactor
           + (IF maxDensity > 0
              THEN ((1000 - compressionFactor) * densities[i]) \div maxDensity
              ELSE 0)]

applyDensityAdaptiveScalingUncentred(coords, densityRadius, compressionFactor) ==
  IF Len(coords) = 0 THEN coords
  ELSE IF Len(coords) = 1 THEN << [x |-> 0, y |-> 0] >>
  ELSE LET factors == ScaleFactors(Densities(coords, densityRadius),
                                   compressionFactor)
       IN  [i \in DOMAIN coords |-> [x |-> MulK(coords[i].x, factors[i]),
                                     y |-> MulK(coords[i].y, factors[i])]]

applyDensityAdaptiveScaling(coords, densityRadius, compressionFactor) ==
  IF Len(coords) = 0 THEN coords
  ELSE IF Len(coords) = 1 THEN << [x |-> 0, y |-> 0] >>
  ELSE LET factors == ScaleFactors(Densities(coords, densityRadius),
                                   compressionFactor)
           scaled == [i \in DOMAIN coords |->
                        [x |-> MulK(coords[i].x, factors[i]),
                         y |-> MulK(coords[i].y, factors[i])]]
           meanX == DivN(SumSeq([i \in DOMAIN scaled |-> scaled[i].x]),
                         Len(scaled))
           meanY == DivN(SumSeq([i \in DOMAIN scaled |-> scaled[i].y]),
                         Len(scaled))
       IN  [i \in DOMAIN scaled |-> [x |-> scaled[i].x - meanX,
                                     y |-> scaled[i].y - meanY]]

ScalePoints == { Point(0, 0), Point(3, 4), Point(10, 0), Point(-6, 8),
                 Point(30, 0) }

InitScale ==
  /\ GraphIdle
  /\ op = "input"
  /\ call \in [ coords : UNION { [ 1..n -> ScalePoints ] : n \in 0..3 },
                densityRadius : { 10 * Unit, 15 * Unit },
                compressionFactor : { 0, 400, 700, 1000 } ]
  /\ frame = << >>
  /\ ret = None

\* applyDensityAdaptiveScaling, with its local densities and scale factors
\* (none on the early returns).
CallScaling ==
  /\ op = "input"
  /\ op' = "applyDensityAdaptiveScaling"
  /\ ret' = Some([densities |-> IF Len(call.coords) < 2 THEN << >>
                                ELSE Densities(call.coords, call.densityRadius),
                  factors |-> IF Len(call.coords) < 2 THEN << >>
                              ELSE ScaleFactors(Densities(call.coords,
                                                          call.densityRadius),
                                                call.compressionFactor),
                  coords |-> applyDensityAdaptiveScaling(call.coords,
                               call.densityRadius, call.compressionFactor)])
  /\ UNCHANGED << graphVars, call, frame >>

NextScale == CallScaling

SpecScale == InitScale /\ [][NextScale]_vars

\* dotProduct of a fixed-point vector with a fixed-point vector.
dotProduct(a, b) == SumSeq([i \in DOMAIN a |-> MulU(a[i], b[i])])

\* v / len, or the vector itself when its length is 0.  The components are
\* first scaled down to 15 bits, so a vector along one axis normalizes to
\* exactly plus or minus one on that axis, as it does in doubles.
normalize(vec) ==
  LET big == CHOOSE m \in { Abs(vec[i]) : i \in DOMAIN vec } :
               \A i \in DOMAIN vec : Abs(vec[i]) <= m
      s == (big \div 20000) + 1
      w == [i \in DOMAIN vec |-> DivN(vec[i], s)]
      len == ISqrt(SumSeq([i \in DOMAIN vec |-> w[i] * w[i]]))
  IN  IF len > 0 THEN [i \in DOMAIN vec |-> MulRatio(Unit, w[i], len)]
      ELSE vec

\* vec minus its component along orthogonalTo, if one is given.
ProjectOut(vec, orthogonalTo) ==
  IF IsSome(orthogonalTo)
  THEN LET proj == dotProduct(vec, Get(orthogonalTo))
       IN  [i \in DOMAIN vec |-> vec[i] - MulU(proj, Get(orthogonalTo)[i])]
  ELSE vec

\* One iteration of powerIteration.
PowerStep(data, vec, orthogonalTo) ==
  LET newVec == [i \in DOMAIN vec |->
                   SumSeq([p \in DOMAIN data |->
                             MulU(data[p][i], dotProduct(data[p], vec))])]
  IN  normalize(ProjectOut(newVec, orthogonalTo))

normalizeCoordinates(coords, targetRange) ==
  LET least(S) == CHOOSE m \in S : \A e \in S : m <= e
      most(S) == CHOOSE m \in S : \A e \in S : e <= m
      xs == { coords[i].x : i \in DOMAIN coords }
      ys == { coords[i].y : i \in DOMAIN coords }
      minX == least(xs)
      minY == least(ys)
      rangeX == IF most(xs) - minX = 0 THEN Unit ELSE most(xs) - minX
      rangeY == IF most(ys) - minY = 0 THEN Unit ELSE most(ys) - minY
      scaled(v) == Sgn(v) * DivK(Abs(v) * targetRange, Max(rangeX, rangeY)) * 100
  IN  [i \in DOMAIN coords |->
         [x |-> scaled(coords[i].x - minX - rangeX \div 2),
          y |-> scaled(coords[i].y - minY - rangeY \div 2)]]

\* Embedding vectors with small integer entries.
PcaInputs ==
  { << >>, << << 1, 0 >> >>,
    << << 1, 2 >>, << 1, 2 >> >>,
    << << 2, 0 >>, << 0, 0 >> >>,
    << << 0, 0, 1 >>, << 0, 0, 1 >>, << 0, 0, 1 >> >>,
    << << 2, 0 >>, << -2, 0 >>, << 0, 1 >>, << 0, -1 >> >>,
    << << 0, 0 >>, << 4, 2 >>, << 1, 3 >> >>,
    << << 3, 1 >>, << 0, 2 >>, << 0, 0 >>, << 1, 1 >> >> }

InitPca ==
  /\ GraphIdle
  /\ op = "input"
  /\ call \in [ embeddings : PcaInputs,
                rand : [ 1..6 -> { -(Unit \div 2), 3 * (Unit \div 10) } ] ]
  /\ frame = << >>
  /\ ret = None

\* The early returns of pca2D, or the centring of the data and the random
\* start of the first power iteration.
PcaBegin ==
  /\ op = "input"
  /\ LET n == Len(call.embeddings)
         d == Len(call.embeddings[1])
         means == [j \in 1..d |->
                     DivN(SumSeq([i \in 1..n |-> call.embeddings[i][j] * Unit]), n)]
     IN  IF n <= 1
         THEN /\ op' = "pca2D"
              /\ ret' = Some([projected |-> << >>,
                              coords |-> IF n = 0 THEN << >>
                                         ELSE << [x |-> 0, y |-> 0] >>])
              /\ frame' = frame
         ELSE /\ op' = "pc1"
              /\ frame' = [centered |->
                             [i \in 1..n |->
                                [j \in 1..d |->
                                   call.embeddings[i][j] * Unit - means[j]]],
                           orthogonalTo |-> None,
                           vec |-> normalize([j \in 1..d |-> call.rand[j]]),
                           iter |-> 0]
              /\ ret' = ret
  /\ UNCHANGED << graphVars, call >>

\* One of the 50 iterations of the running powerIteration.
PowerIterate ==
  /\ op \in { "pc1", "pc2" }
  /\ frame.iter < 50
  /\ frame' = [frame EXCEPT
       !.vec = PowerStep(frame.centered, @, frame.orthogonalTo),
       !.iter = @ + 1]
  /\ UNCHANGED << graphVars, call, ret, op >>

\* pc1 is returned; the second powerIteration starts from a random vector
\* with its component along pc1 removed.
PcaSecond ==
  /\ op = "pc1"
  /\ frame.iter = 50
  /\ LET d == Len(frame.vec)
     IN  frame' = [frame EXCEPT
           !.orthogonalTo = Some(frame.vec),
           !.vec = normalize(ProjectOut([j \in 1..d |-> call.rand[3 + j]],
                                        Some(frame.vec))),
           !.iter = 0]
  /\ op' = "pc2"
  /\ UNCHANGED << graphVars, call, ret >>

\* pc2 is returned; the data are projected and normalized to a range of 80.
PcaReturn ==
  /\ op = "pc2"
  /\ frame.iter = 50
  /\ LET projected == [i \in DOMAIN frame.centered |->
                         [x |-> dotProduct(frame.centered[i],
                                           Get(frame.orthogonalTo)),
                          y |-> dotProduct(frame.centered[i], frame.vec)]]
     IN  ret' = Some([projected |-> projected,
                      coords |-> normalizeCoordinates(projected, 80)])
  /\ op' = "pca2D"
  /\ UNCHANGED << graphVars, call, frame >>

NextPca == PcaBegin \/ PowerIterate \/ PcaSecond \/ PcaReturn

SpecPca == InitPca /\ [][NextPca]_vars

\* ------------------------------- properties of density scaling and of PCA

\* C18: when every point has the same neighbour count, density scaling
\* multiplies all points by one common factor and then re-centres them, so
\* every difference between two points is multiplied by that factor.
C18_UniformDensityScalesUniformly ==
  (op = "applyDensityAdaptiveScaling"
     /\ Len(call.coords) >= 2
     /\ \A i, j \in DOMAIN call.coords :
          Get(ret).densities[i] = Get(ret).densities[j]) =>
    LET in == call.coords
        out == Get(ret).coords
    IN  /\ \E f \in { call.compressionFactor, 1000 } :
             \A i, j \in DOMAIN in :
               /\ out[i].x - out[j].x = MulK(in[i].x, f) - MulK(in[j].x, f)
               /\ out[i].y - out[j].y = MulK(in[i].y, f) - MulK(in[j].y, f)
        /\ Abs(SumSeq([i \in DOMAIN out |-> out[i].x])) < Len(out)
        /\ Abs(SumSeq([i \in DOMAIN out |-> out[i].y])) < Len(out)

C18_Witness ==
  /\ op = "applyDensityAdaptiveScaling"
  /\ Len(call.coords) = 3
  /\ Get(ret).densities = << 2, 2, 2 >>
  /\ call.coords[1] # call.coords[2]
  /\ call.coords[1] # Get(ret).coords[1]

\* C19: with two or more points and a compression factor between 0 and 1,
\* every scale factor is between the compression factor and 1, and the
\* points with the largest neighbour count are scaled by exactly 1.
C19_FactorsBoundedDensestUnscaled ==
  (op = "applyDensityAdaptiveScaling" /\ Len(call.coords) >= 2) =>
    LET out == Get(ret)
    IN  \A i \in DOMAIN call.coords :
          /\ call.compressionFactor <= out.factors[i]
          /\ out.factors[i] <= 1000
          /\ (\A j \in DOMAIN call.coords :
                out.densities[j] <= out.densities[i]) => out.factors[i] = 1000

\* C20: for two or more input vectors the bounding box of the returned
\* coordinates is centred on the origin on both axes, its longest side is
\* 80, and both axes are scaled by the same factor (each to within 0.05, the
\* accuracy of the arithmetic here).
C20_BoundingBoxCentredSpan80 ==
  (op = "pca2D" /\ Len(call.embeddings) >= 2) =>
    LET out == Get(ret).coords
        p == Get(ret).projected
        least(S) == CHOOSE m \in S : \A e \in S : m <= e
        most(S) == CHOOSE m \in S : \A e \in S : e <= m
        xs == { out[i].x : i \in DOMAIN out }
        ys == { out[i].y : i \in DOMAIN out }
        pxs == { p[i].x : i \in DOMAIN p }
        pys == { p[i].y : i \in DOMAIN p }
        span == Max(most(pxs) - least(pxs), most(pys) - least(pys))
        tol == Unit \div 20
        scaled(v) == Sgn(v) * DivK(Abs(v) * 80, span) * 100
    IN  /\ Abs(least(xs) + most(xs)) <= tol
        /\ Abs(least(ys) + most(ys)) <= tol
        /\ Abs(Max(most(xs) - least(xs), most(ys) - least(ys)) - 80 * Unit) <= tol
        /\ \A i, j \in DOMAIN out :
             /\ Abs((out[i].x - out[j].x) - scaled(p[i].x - p[j].x)) <= tol
             /\ Abs((out[i].y - out[j].y) - scaled(p[i].y - p[j].y)) <= tol


\* ------------------------------------- placing one new embedding
\* (positionNewEmbedding, findKNearestNeighbors, euclideanDistance)

\* Embedding components are small integers; a distance counts 1/Unit.
\* When a is longer than b, b[i] is undefined, the difference is NaN and so
\* are the sum and its root; when a is shorter the loop stops at a.length.
euclideanDistance(a, b) ==
  IF Len(a) > Len(b) THEN NaN
  ELSE Num(ISqrt(SumSeq([i \in DOMAIN a |-> (a[i] - b[i]) * (a[i] - b[i])])
                   * 10000) * (Unit \div 100))

\* The comparator is (a, b) => a.dist - b.dist, and a NaN difference counts
\* as 0.  Array.prototype.sort is stable: of two entries the comparator does not
\* separate, the one that came first stays first.  Indices count from 1.
\* (The distances of one call are all NaN or all numbers when the existing
\* embeddings have one length, so the comparator is consistent.)
findKNearestNeighbors(target, embeddings, k) ==
  LET n == Len(embeddings)
      dist == [idx \in 1..n |-> euclideanDistance(target, embeddings[idx])]
      DistBefore(da, db) == ~da.nan /\ ~db.nan /\ da.v < db.v
      Precedes(i, j) == \/ DistBefore(dist[i], dist[j])
                        \/ (~DistBefore(dist[j], dist[i]) /\ i < j)
      place == [idx \in 1..n |->
                  1 + Cardinality({ j \in 1..n : Precedes(j, idx) })]
      sorted == [p \in 1..n |-> CHOOSE idx \in 1..n : place[idx] = p]
  IN  SubSeq(sorted, 1, k)

\* The quotient sum / k of two doubles is NaN for 0 / 0.
positionNewEmbedding(newEmbedding, existingEmbeddings, existingCoords) ==
  LET k == Min(5, Len(existingEmbeddings))
      Quotient(sum) == IF k = 0 THEN NaN ELSE Num(DivN(sum, k))
      neighbors == findKNearestNeighbors(newEmbedding, existingEmbeddings, k)
      avgPosition ==
        [x |-> SumSeq([i \in DOMAIN neighbors |-> existingCoords[neighbors[i]].x]),
         y |-> SumSeq([i \in DOMAIN neighbors |-> existingCoords[neighbors[i]].y]),
         z |-> SumSeq([i \in DOMAIN neighbors |-> existingCoords[neighbors[i]].z])]
  IN  [x |-> Quotient(avgPosition.x),
       y |-> Quotient(avgPosition.y),
       z |-> Quotient(avgPosition.z)]

Vector3D(px, py, pz) == [x |-> px * Unit, y |-> py * Unit, z |-> pz * Unit]

\* Six placed items, in two storage orders, of which a call sees a prefix.
PlacedItems ==
  { << [embedding |-> << 0, 0 >>, coords |-> Vector3D(0, 0, 0)],
       [embedding |-> << 3, 4 >>, coords |-> Vector3D(10, 20, 0)],
       [embedding |-> << 10, 0 >>, coords |-> Vector3D(-40, 5, 0)],
       [embedding |-> << 0, 1 >>, coords |-> Vector3D(30, -30, 0)],
       [embedding |-> << 6, 8 >>, coords |-> Vector3D(-15, 40, 5)],
       [embedding |-> << 1, 1 >>, coords |-> Vector3D(25, 35, 0)] >>,
    << [embedding |-> << 6, 8 >>, coords |-> Vector3D(-15, 40, 5)],
       [embedding |-> << 10, 0 >>, coords |-> Vector3D(-40, 5, 0)],
       [embedding |-> << 1, 1 >>, coords |-> Vector3D(25, 35, 0)],
       [embedding |-> << 3, 4 >>, coords |-> Vector3D(10, 20, 0)],
       [embedding |-> << 0, 1 >>, coords |-> Vector3D(30, -30, 0)],
       [embedding |-> << 0, 0 >>, coords |-> Vector3D(0, 0, 0)] >> }

NewEmbeddings ==
  { << 0, 0 >>, << 1, 0 >>, << 9, 1 >>, << 5, 5 >>, << 3, 4 >>, << 7, 7 >>,
    << 2 >>, << 1, 1, 1 >>, << >> }

InitPosition ==
  /\ GraphIdle
  /\ op = "input"
  /\ frame = << >>
  /\ \E placed \in PlacedItems, n \in 0..6, e \in NewEmbeddings :
       call = [newEmbedding |-> e,
               existingEmbeddings |-> [i \in 1..n |-> placed[i].embedding],
               existingCoords |-> [i \in 1..n |-> placed[i].coords]]
  /\ ret = None

CallPositionNewEmbedding ==
  /\ op = "input"
  /\ op' = "positionNewEmbedding"
  /\ ret' = Some([neighbors |->
                    findKNearestNeighbors(call.newEmbedding,
                                          call.existingEmbeddings,
                                          Min(5, Len(call.existingEmbeddings))),
                  result |-> positionNewEmbedding(call.newEmbedding,
                                                  call.existingEmbeddings,
                                                  call.existingCoords)])
  /\ UNCHANGED << graphVars, call, frame >>

NextPosition == CallPositionNewEmbedding

SpecPosition == InitPosition /\ [][NextPosition]_vars

\* --------------------------------------- properties of the placement

\* squared Euclidean distance of two vectors of one length
SquaredDistance(a, b) ==
  SumSeq([i \in DOMAIN a |-> (a[i] - b[i]) * (a[i] - b[i])])

\* S holds k existing vectors none of which is farther from the new
\* embedding than an existing vector outside S (any k vectors when the
\* lengths differ and no distance is defined).
NearestSet(S, k) ==
  LET e == call.newEmbedding
      ex == call.existingEmbeddings
  IN  /\ Cardinality(S) = k
      /\ \A i \in S : \A j \in (DOMAIN ex) \ S :
           (Len(ex[i]) = Len(e) /\ Len(ex[j]) = Len(e)) =>
             SquaredDistance(e, ex[i]) <= SquaredDistance(e, ex[j])

IsCentroid(r, S) ==
  LET k == Cardinality(S)
      Sum(f) == SumSeq([i \in 1..Len(call.existingCoords) |->
                          IF i \in S THEN f[i] ELSE 0])
  IN  /\ ~r.x.nan /\ ~r.y.nan /\ ~r.z.nan
      /\ Abs(r.x.v * k - Sum([i \in DOMAIN call.existingCoords |->
                                call.existingCoords[i].x])) < k
      /\ Abs(r.y.v * k - Sum([i \in DOMAIN call.existingCoords |->
                                call.existingCoords[i].y])) < k
      /\ Abs(r.z.v * k - Sum([i \in DOMAIN call.existingCoords |->
                                call.existingCoords[i].z])) < k

CentroidOfNearest ==
  (op = "positionNewEmbedding" /\ Len(call.existingEmbeddings) >= 1) =>
    \E S \in SUBSET (DOMAIN call.existingEmbeddings) :
      /\ NearestSet(S, Min(5, Len(call.existingEmbeddings)))
      /\ IsCentroid(Get(ret).result, S)

\* C21: positionNewEmbedding returns a well-defined point (no coordinate is
\* NaN) for every input, an empty existing set and a new embedding of
\* another length included, and with N >= 1 existing vectors the point is
\* the centroid of the coordinates of the min(5, N) nearest existing vectors.
C21_WellDefinedCentroidOfNearest ==
  /\ (op = "positionNewEmbedding") =>
       (~Get(ret).result.x.nan /\ ~Get(ret).result.y.nan
          /\ ~Get(ret).result.z.nan)
  /\ CentroidOfNearest


\* ---------------------------- removeNode() between calls of update()

\* the ids a caller may pass to removeNode
RemoveIds == { "a", "b", "c" }

\* update() as the animation frame calls it, before or after a removal
RemoveTick ==
  /\ op \in { "input", "removeNode" }
  /\ op' = IF op = "input" THEN "tick" ELSE "update"
  /\ pre' = nodes
  /\ nodes' = UpdateNodes(config, nodes)
  /\ spatialGrid' = UpdateGrid(nodes, spatialGrid)
  /\ forces' = UpdateForces(config, nodes)
  /\ UNCHANGED << config, items, dragVars, isMobile, ticks, events, retarget >>
  /\ UNCHANGED << call, frame, ret >>

\* removeNode(id), of a node the simulation holds or not; nothing else of
\* the simulation is touched, the spatial grid of the last update() included
RemoveCall(id) ==
  /\ op \in { "input", "tick", "removeNode" }
  /\ op' = "removeNode"
  /\ call' = [id |-> id]
  /\ pre' = nodes
  /\ nodes' = RemoveNode(nodes, id)
  /\ UNCHANGED << spatialGrid, config, forces, items, dragVars, isMobile, ticks,
                  events, retarget >>
  /\ UNCHANGED << frame, ret >>

NextRemove == RemoveTick \/ \E id \in RemoveIds : RemoveCall(id)

SpecRemove == InitPhys /\ [][NextRemove]_vars

\* ------------------------------------------- properties of removeNode

\* the ids the spatial grid lists
GridIds(grid) == UNION { Range(grid[key]) : key \in DOMAIN grid }

\* the nodes of ns other than id, in their order
Others(ns, id) == SelectSeq(ns, LAMBDA n : n.id # id)

\* After removeNode(id) the simulation holds no node with that id (getNode(id)
\* is undefined, getAllNodes() lacks it) and every other node is there as it
\* was.
RemovedAndOthersUnchanged ==
  (op = "removeNode") =>
    /\ ~HasNode(nodes, call.id)
    /\ \A i \in DOMAIN pre :
         pre[i].id # call.id =>
           (HasNode(nodes, pre[i].id) /\ GetNode(nodes, pre[i].id) = pre[i])
    /\ \A i \in DOMAIN nodes : \E j \in DOMAIN pre : nodes[i] = pre[j]

\* The update() after removeNode(id) computes the forces and the nodes of a
\* simulation that never held the removed node, also when the spatial grid of
\* the tick before still lists the id: no force and no collision comes from
\* it, and the new grid, the forces Map and the nodes do not hold it.
RemovedNodeHasNoEffect ==
    (op = "removeNode" /\ op' = "update") =>
       /\ nodes' = UpdateNodes(config, Others(pre, call.id))
       /\ forces' = UpdateForces(config, Others(pre, call.id))
       /\ ~HasNode(nodes', call.id)
       /\ call.id \notin DOMAIN forces'
       /\ (Len(nodes) > 0 => call.id \notin GridIds(spatialGrid'))

\* C22: after removeNode(id), getNode(id) is undefined, getAllNodes() does not
\* contain the node and every other node is unchanged; in the update() that
\* follows, the removed node exerts no force and takes part in no collision,
\* also when the call falls between two ticks and the spatial grid still
\* lists the id.
C22_RemovedNodeGoneWithoutEffect ==
  []RemovedAndOthersUnchanged /\ [][RemovedNodeHasNoEffect]_vars

C22_Witness ==
  /\ op = "removeNode"
  /\ call.id = "b"
  /\ HasNode(pre, "b")
  /\ "b" \in GridIds(spatialGrid)
  /\ Len(nodes) = 2
  /\ \E i \in DOMAIN pre :
       pre[i].id = "b" /\ Hypot(pre[i].x - pre[1].x, pre[i].y - pre[1].y) < 9 * Unit


\* ------------------------- properties of the data a node copies from its item

\* every collection id of an item: the secondary ones and the primary one
AllCollectionIds(item) ==
  (IF IsSome(item.collection_ids) THEN Range(Get(item.collection_ids)) ELSE {})
    \cup (IF IsSome(item.collectionId) THEN { Get(item.collectionId) } ELSE {})

\* two nodes between which a force has a direction
Apart(n, o) == Hypot(o.x - n.x, o.y - n.y) > FromMilli(minSeparation)

\* C23: after a synchronization the collection ids a node holds contain every
\* collection id of its item, the primary and the secondary ones, and
\* collection attraction acts between two nodes (apart from each other)
\* exactly when the collection similarity of their items is 1.
C23_NodeHoldsAllCollectionIds ==
  (op = "items") =>
    /\ \A i \in DOMAIN nodes :
         AllCollectionIds(Get(items[nodes[i].id])) \subseteq Range(nodes[i].collectionIds)
    /\ \A i \in DOMAIN nodes : \A j \in DOMAIN nodes :
         (i # j /\ Apart(nodes[i], nodes[j])) =>
           ((CollectionAttraction(config, nodes[i], nodes[j]) # ZeroForce)
              <=> (calculateCollectionSimilarity(Get(items[nodes[i].id]),
                                                 Get(items[nodes[j].id])) = Unit))


\* ------------------------------------- properties of the spatial grid

\* how many entries of a cell's list are this id
TimesListed(ids, id) == Cardinality({ k \in DOMAIN ids : ids[k] = id })

\* C24: at the start of the force phase of an update() with at least one
\* node (pre holds the nodes the update started from), every node id is
\* listed in exactly one cell of the spatial grid, once, and that cell is
\* (floor(x / 10), floor(y / 10)) of the node's position; the grid lists no
\* id of a node the simulation does not hold.
C24_GridListsEachNodeInItsCell ==
  (op \in { "tick", "update" } /\ Len(pre) >= 1) =>
    /\ \A i \in DOMAIN pre :
         LET cell == << pre[i].x \div (10 * Unit), pre[i].y \div (10 * Unit) >>
         IN  /\ cell \in DOMAIN spatialGrid
             /\ TimesListed(spatialGrid[cell], pre[i].id) = 1
             /\ \A key \in DOMAIN spatialGrid :
                  key # cell => TimesListed(spatialGrid[key], pre[i].id) = 0
    /\ GridIds(spatialGrid) \subseteq { pre[i].id : i \in DOMAIN pre }

\* an update of two nodes in different cells, one of them left of the
\* origin, that follows removeNode("c")
C24_Witness ==
  /\ op = "update"
  /\ Len(pre) = 2
  /\ Cardinality(DOMAIN spatialGrid) = 2
  /\ call.id = "c"
  /\ \E i \in DOMAIN pre : pre[i].x < 0


\* C25: when the items effect finds that the item of an existing node has a
\* new computed position, the node's target becomes that position and its
\* current position, velocity, radius, mass and pinned flag stay as they
\* were before the synchronization.
C25_RetargetKeepsMotionState ==
  [][(op' = "items") =>
       \A i \in DOMAIN nodes :
         LET n == nodes[i]
             entry == items'[n.id]
         IN  (/\ IsSome(entry)
              /\ IsSome(Get(entry).umap_coords)
              /\ (Get(Get(entry).umap_coords).x # n.targetX
                    \/ Get(Get(entry).umap_coords).y # n.targetY)) =>
               /\ HasNode(nodes', n.id)
               /\ LET m == GetNode(nodes', n.id)
                  IN  /\ m.targetX = Get(Get(entry).umap_coords).x
                      /\ m.targetY = Get(Get(entry).umap_coords).y
                      /\ m.x = n.x /\ m.y = n.y
                      /\ m.vx = n.vx /\ m.vy = n.vy
                      /\ m.radius = n.radius /\ m.mass = n.mass
                      /\ m.pinned = n.pinned]_vars

\* node "a", registered at (0, 0) and pinned there, after a synchronization
\* that moved its target to (6, 0)
C25_Witness ==
  /\ op = "items"
  /\ HasNode(nodes, "a")
  /\ GetNode(nodes, "a").pinned
  /\ GetNode(nodes, "a").x = 0
  /\ GetNode(nodes, "a").targetX = 6 * Unit


\* the ids of the pinned nodes
PinnedIds(ns) == { ns[i].id : i \in { k \in DOMAIN ns : ns[k].pinned } }

\* C26: after any sequence of drag starts, releases, synchronizations and
\* ticks, at most one node of the simulation is pinned, and it is the node
\* the last drag started on: a drag start unpins the node pinned before.
C26_AtMostOnePinned ==
  /\ Cardinality(PinnedIds(nodes)) <= 1
  /\ PinnedIds(nodes) \subseteq { lastPinnedNodeId }

\* a drag start on "b" while "a", dragged away from where it was registered,
\* had not been released
C26_Witness ==
  /\ op = "pointerdown"
  /\ ticks = 0
  /\ HasNode(nodes, "a") /\ HasNode(nodes, "b")
  /\ GetNode(nodes, "b").pinned
  /\ ~GetNode(nodes, "a").pinned
  /\ GetNode(nodes, "a").x \notin { 0, 6 * Unit }


\* C27: whenever a mouse move of a drag writes a position into a node, that
\* node is pinned at that moment, also when the dragged item was removed
\* from and added again to the items, or synchronized, during the drag.
C27_DraggedNodeIsPinned ==
  [][(op' = "mousemove") =>
       \A i \in DOMAIN nodes :
         (nodes'[i].x # nodes[i].x \/ nodes'[i].y # nodes[i].y) =>
           (nodes[i].pinned /\ nodes'[i].pinned)]_vars


\* ------------------------------ properties of one update() as a whole

\* the orders in which n nodes can be stored
StorageOrders(n) ==
  { f \in [1..n -> 1..n] : \A i \in 1..n : \A j \in 1..n : f[i] = f[j] => i = j }

Reordered(ns, f) == [ i \in DOMAIN ns |-> ns[f[i]] ]

\* id -> node
ById(ns) == [ id \in { ns[i].id : i \in DOMAIN ns } |-> GetNode(ns, id) ]

\* C28: in one update() the force on every node is computed from the
\* positions at the start of the tick, before any node is integrated, so the
\* positions and velocities after the integration phase (seen in the nodes
\* when collision resolution is switched off) are the same for every order
\* in which the nodes are stored.
C28_IntegrationIgnoresStorageOrder ==
  (op = "update" /\ ~config.collisionEnabled) =>
    /\ forces = ComputeForces(config, pre, BuildSpatialGrid(pre))
    /\ \A i \in DOMAIN pre :
         nodes[i] = IntegrateNode(config, pre[i], forces[pre[i].id])
    /\ \A f \in StorageOrders(Len(pre)) :
         /\ UpdateForces(config, Reordered(pre, f)) = forces
         /\ ById(UpdateNodes(config, Reordered(pre, f))) = ById(nodes)

\* three free nodes, each pushed by another, after their integration
C28_Witness ==
  /\ op = "update"
  /\ ~config.collisionEnabled
  /\ Len(nodes) = 3
  /\ \A i \in DOMAIN nodes :
       /\ ~nodes[i].pinned
       /\ forces[nodes[i].id] # TargetAttraction(config, pre[i])
       /\ nodes[i].x # pre[i].x


\* the fields of a node that update() has no business with
Identity(n) ==
  [ id |-> n.id, targetX |-> n.targetX, targetY |-> n.targetY,
    radius |-> n.radius, mass |-> n.mass, pinned |-> n.pinned,
    tags |-> n.tags, collectionIds |-> n.collectionIds ]

\* C29: update() never adds or removes a node and never changes a node's id,
\* target, radius, mass, pinned flag, tags or collection ids; with zero nodes
\* it changes nothing at all (nodes, spatial grid and configuration stay).
C29_UpdateKeepsIdentity ==
  [][(op' \in { "tick", "update" }) =>
       /\ Len(nodes') = Len(nodes)
       /\ \A i \in DOMAIN nodes : Identity(nodes'[i]) = Identity(nodes[i])
       /\ config' = config
       /\ (Len(nodes) = 0 => (nodes' = nodes /\ spatialGrid' = spatialGrid))]_vars

\* an update() of a simulation emptied by removeNode, whose spatial grid
\* still lists the nodes of the tick before
C29_Witness ==
  /\ op = "update"
  /\ Len(pre) = 0
  /\ Len(nodes) = 0
  /\ GridIds(spatialGrid) # {}


\* ------------------------- tag attraction and calculateTagSimilarity
\* on drawn tag lists

\* Two tag lists, the distance between the two nodes that carry them (the
\* second node lies to the right of the first) and tagAttractionStrength
\* (the default 0.05, or 1 as setConfig may set it), in thousandths.
InitTags ==
  /\ GraphIdle
  /\ op = "input"
  /\ frame = << >>
  /\ call \in [ tagsA : { << >>, << "cat" >>, << "Cat" >>, << "cat", "cat" >>,
                          << "cat", "pet" >>, << "Pet", "dog" >>, << "dog" >> },
                tagsB : { << >>, << "cat" >>, << "Cat" >>, << "cat", "cat" >>,
                          << "cat", "pet" >>, << "Pet", "dog" >>, << "dog" >> },
                gap : { 0, 5 * Milli, 3 * Unit },
                strength : { DEFAULT_CONFIG.tagAttractionStrength, 1000 } ]
  /\ ret = None

\* applyTagAttraction(node, other, force) on a zero force
CallTagAttraction ==
  /\ op = "input"
  /\ op' = "applyTagAttraction"
  /\ frame' =
       LET node == [PhysNode("a", Point(0, 0), Point(0, 0), Point(0, 0), FALSE)
                      EXCEPT !.tags = call.tagsA]
           other == [PhysNode("b", [x |-> call.gap, y |-> 0], Point(0, 0),
                              Point(0, 0), FALSE)
                       EXCEPT !.tags = call.tagsB]
       IN  [force |-> TagAttraction([DEFAULT_CONFIG EXCEPT
                                       !.tagAttractionStrength = call.strength],
                                    node, other)]
  /\ UNCHANGED << graphVars, call, ret >>

\* calculateTagSimilarity(tagsA, tagsB) on the same lists
CallTagSimilarity ==
  /\ op = "applyTagAttraction"
  /\ op' = "calculateTagSimilarity"
  /\ ret' = Some([similarity |-> calculateTagSimilarity(call.tagsA, call.tagsB)])
  /\ UNCHANGED << graphVars, call, frame >>

NextTags == CallTagAttraction \/ CallTagSimilarity

SpecTags == InitTags /\ [][NextTags]_vars

\* ----------------------------------- properties of tag attraction

\* The force of applyTagAttraction on the left node points to the right and
\* is tagAttractionStrength times the Jaccard value: with strength 1 it is
\* the value itself.
ForceIsSimilarity ==
  /\ frame.force.fy = 0
  /\ (call.strength = 1000) => (frame.force.fx = Get(ret).similarity)
  /\ Abs(frame.force.fx * 1000 - Get(ret).similarity * call.strength) <= 1000

\* C30: for every two tag lists the Jaccard value the simulation uses for
\* tag attraction equals calculateTagSimilarity of the same lists, and the
\* simulation applies no tag attraction exactly when that value is 0.
C30_TagAttractionIffSimilar ==
  (op = "calculateTagSimilarity") =>
    /\ (frame.force # ZeroForce) => ForceIsSimilarity
    /\ (frame.force = ZeroForce) <=> (Get(ret).similarity = 0)

\* C30 as the code has it: between two nodes more than 0.01 apart the force
\* carries the value of calculateTagSimilarity and is absent exactly when
\* that value is 0; between nodes at most 0.01 apart no tag attraction is
\* applied, whatever the value.
C30_TagAttractionIffSimilarAndApart ==
  (op = "calculateTagSimilarity") =>
    IF call.gap > FromMilli(minSeparation)
    THEN /\ ForceIsSimilarity
         /\ (frame.force = ZeroForce) <=> (Get(ret).similarity = 0)
    ELSE frame.force = ZeroForce

\* lists that differ in case, on nodes three units apart
C30_Witness ==
  /\ op = "calculateTagSimilarity"
  /\ call.tagsA = << "Cat" >>
  /\ call.tagsB = << "cat", "pet" >>
  /\ call.gap = 3 * Unit
  /\ call.strength = 1000
  /\ Get(ret).similarity = Unit \div 2
  /\ frame.force = [fx |-> Unit \div 2, fy |-> 0]

====
